---- MODULE Spec2Model ----
(***************************************************************************)
(* A model of haruna's observation pipeline: the snapshot delta codec, the *)
(* dump writer and reader, the virtual terminal's capture loop with its    *)
(* flush scheduler, and the composite scene.                               *)
(*                                                                         *)
(* Encoding of JavaScript values:                                          *)
(*   - `T | null` and optional fields are sequences of length 0 or 1       *)
(*     (<<>> is null / absent, <<v>> is the value v);                      *)
(*   - a RichText is a record with a kind ("plain" for the string          *)
(*     shorthand, "rich" for a segment array), so that the plain string    *)
(*     "a" and the array ["a"] are different values, as in the source.     *)
(***************************************************************************)
EXTENDS Integers, Sequences, FiniteSets, TLC

VARIABLES
    \* ---- snapshot delta codec (computeSnapshotDiff / applySnapshotDiff)
    dPrev,      \* the base snapshot
    dCurr,      \* the current snapshot
    dDelta,     \* <<>> before the diff ran or when it returned null, else <<delta>>
    dOut,       \* <<>> or <<the snapshot applySnapshotDiff returned>>
    dpc         \* "input" | "applied" | "keyframe"

codecVars == <<dPrev, dCurr, dDelta, dOut, dpc>>

VARIABLES
    \* ---- dump writer (DumpWriter) and reader (DumpReader)
    wOpen,                  \* the writer's file sink is open (this.writer !== null)
    wIntervalMs,            \* this.intervalMs
    wSizeRatio,             \* this.sizeRatio
    wLastSnapshot,          \* this.lastSnapshot: <<>> or <<snapshot>>
    wLastKeyframeTime,      \* this.lastKeyframeTime
    wBytesSinceKeyframe,    \* this.bytesSinceKeyframe
    wLastKeyframeSize,      \* this.lastKeyframeSize
    file,                   \* the dump file: [frames, length]
    written,                \* the snapshots passed to write(), in order
    rIndex,                 \* the reader's index: <<>> before open, else <<entries>>
    rOut                    \* <<>> or <<the sequence snapshots() yielded>>

dumpVars == <<wOpen, wIntervalMs, wSizeRatio, wLastSnapshot, wLastKeyframeTime,
              wBytesSinceKeyframe, wLastKeyframeSize, file, written, rIndex, rOut>>

VARIABLES
    \* ---- queries on a dump that another program may have written frames to
    rdForeign,              \* <<>>, or <<the frame not written by DumpWriter: kind, place>>
    rdQuery                 \* <<>>, or <<the last query: op, arg and what it returned>>

rdVars == <<rdForeign, rdQuery>>

VARIABLES
    \* ---- virtual terminal (VirtualTerminal, FlushScheduler, Emulator)
    vtDisposed,         \* VirtualTerminal.disposed
    previousSnapshot,   \* VirtualTerminal.previousSnapshot: <<>> or <<snapshot>>
    runningCapture,     \* VirtualTerminal.runningCapture: <<>> or <<coroutine id>>
    captureNeeded,      \* VirtualTerminal.captureNeeded
    capPc,              \* per runCapture coroutine: "none" | "awaiting" | "resolved"
    debounceTimer,      \* FlushScheduler.debounceTimer is set
    intervalTimer,      \* FlushScheduler.intervalTimer is set
    schedDisposed,      \* FlushScheduler.disposed
    emuQueue,           \* xterm's write buffer: data chunks and flush callbacks
    emuScreen,          \* what the emulator has processed so far
    emuSeq,             \* number of the last write the emulator processed
    emuDisposed,        \* the terminal was disposed
    clock,              \* Date.now()
    \* ---- history of the virtual terminal
    nWrites,            \* writes accepted so far
    capSeq,             \* emuSeq at the latest snapshot a capture took
    changes,            \* the onChange invocations, in order
    firesInFlight,      \* scheduler firings since the running capture began
    nCaptures,          \* captures (loop iterations of runCapture) begun
    nFires,             \* scheduler firings so far
    lastWriteInFlight,  \* the latest write arrived while a capture was in flight
    \* ---- the latest VirtualTerminal.flush() call
    flushPc,            \* "none" | "awaiting" | "resolved"
    flushAwaits,        \* the promise it awaits: <<>> is null, else <<coroutine id>>
    flushWrites,        \* writes accepted before the call
    flushInFlight       \* a capture was in flight at the call

flushVars == <<flushPc, flushAwaits, flushWrites, flushInFlight>>
vtVars == <<vtDisposed, previousSnapshot, runningCapture, captureNeeded, capPc,
            debounceTimer, intervalTimer, schedDisposed, emuQueue, emuScreen, emuSeq,
            emuDisposed, clock, nWrites, capSeq, changes, firesInFlight, nCaptures,
            nFires, lastWriteInFlight, flushVars>>

\* The composite scene (scene/builtin/composite.ts) and, for each process()
\* call, what its children answered and which of them were asked.
VARIABLES
    cPriority,          \* Scene.priority of each child, by position in the constructor's array
    scenes,             \* CompositeScene.scenes: the children sorted by priority
    activeScene,        \* CompositeScene.activeScene; <<>> is null
    cPrevActive,        \* activeScene when the last process() call began
    cCont,              \* what the active child's continue() answers for the snapshot
    cDet,               \* what each child's detect() answers for the snapshot
    cCalls,             \* the calls the last process() made on children, in order
    cResult             \* what the last process() returned; <<>> before the first

compVars == <<cPriority, scenes, activeScene, cPrevActive, cCont, cDet, cCalls, cResult>>

\* The gateway (gateway.ts), its channels, and what the last broadcast
\* delivered.
VARIABLES
    gComposite,         \* whether Gateway.composite is defined
    sceneState,         \* composite.state: the active child's state label; <<>> is null
    gChannels,          \* Gateway.channels
    gLastSnapshot,      \* Gateway.lastSnapshot; <<>> is null
    gClock,             \* timestamp of the latest snapshot given to update()
    gOp,                \* the last gateway operation that ran
    gPrevState,         \* composite.state when the last update() began
    gSceneEvents,       \* the events the scenes produced in the last update()
    gFrame,             \* the frame of the last broadcast; <<>> before the first
    gTargets,           \* Gateway.channels when the last broadcast began
    gReceived,          \* the channels whose receive() the last broadcast called, in order
    gThrew,             \* the channels whose receive() threw in the last broadcast
    gUpdateThrew,       \* whether the last update() threw
    chStatus,           \* each channel: "new", "starting", "started", "failed" or "stopped"
    chStopCalls,        \* each channel: calls of stop() so far
    chLast,             \* each channel: the snapshot of the last frame it received; <<>> is none
    chPrev,             \* each channel: the snapshot of the frame it received before that
    rcPc,               \* replaceChannels(): "idle", "stopping", "starting" or "rollback"
    rcOld,              \* replaceChannels(): `old`
    rcNew,              \* replaceChannels(): the `channels` argument
    rcStarted,          \* replaceChannels(): `started`
    rcOutcome           \* the last replaceChannels(): "none", "resolved" or "rejected"

gwVars == <<gComposite, sceneState, gChannels, gLastSnapshot, gClock, gOp, gPrevState,
            gSceneEvents, gFrame, gTargets, gReceived, gThrew, gUpdateThrew, chStatus,
            chStopCalls, chLast, chPrev, rcPc, rcOld, rcNew, rcStarted, rcOutcome>>

\* The emulator's scrollback tracking (emulator.ts), the xterm buffer under
\* it, and the snapshots taken of it.
VARIABLES
    termScrollback,         \* the terminal's `scrollback` option
    termCols,               \* terminal.cols
    termAlt,                \* terminal.buffer.active.type === "alternate"
    termBaseY,              \* baseY of the normal buffer: its scrollback lines
    termView,               \* the text on the screen
    termTrimmed,            \* lines trimmed from the front of the normal buffer so far
    scrollbackCacheLength,  \* Emulator.scrollbackCache.length
    scrollbackCacheCols,    \* Emulator.scrollbackCacheCols
    scrollbackCacheMarker,  \* Emulator.scrollbackCacheMarker: [state, line]
    cumulativeTrimCount,    \* Emulator.cumulativeTrimCount; <<>> is null
    pendingChange,          \* a write() has notified the scheduler since the last capture
    lastCaptured,           \* VirtualTerminal.previousSnapshot: <<>> or <<snapshot>>
    emittedOffsets,         \* linesOffset of the last two snapshots given to onChange
    normalShots,            \* the last two normal-screen snapshots taken, latest last
    lastShot,               \* the last snapshot taken: <<>> or <<its record>>
    sinceResize,            \* <<>> before any resize(), else <<the first two snapshots since>>
    resizedSinceNormal      \* resize() was called since the last normal-screen snapshot

sbVars == <<termScrollback, termCols, termAlt, termBaseY, termView, termTrimmed,
            scrollbackCacheLength, scrollbackCacheCols, scrollbackCacheMarker,
            cumulativeTrimCount, pendingChange, lastCaptured, emittedOffsets,
            normalShots, lastShot, sinceResize, resizedSinceNormal>>

\* The flush scheduler on a clock (FlushScheduler): its timers as deadlines.
VARIABLES
    fsNow,              \* the time in ms
    fsDebounceDue,      \* FlushScheduler.debounceTimer: <<>> is null, else <<when it is due>>
    fsIntervalDue,      \* FlushScheduler.intervalTimer: <<>> is null, else <<when it is due>>
    fsDisposed,         \* FlushScheduler.disposed
    fsCycleStart,       \* <<>>, or <<the time of the first notify() since the last flush>>
    fsCycleNotifies,    \* notify() calls since the last flush
    fsCycleFires,       \* onFlush() calls since the first notify() of the latest cycle
    fsLastFire          \* <<>>, or <<the last onFlush() call: its cause and its cycle>>

fsVars == <<fsNow, fsDebounceDue, fsIntervalDue, fsDisposed, fsCycleStart,
            fsCycleNotifies, fsCycleFires, fsLastFire>>

VARIABLES
    \* ---- shell scene (ShellScene, PromptMatcher)
    shPrefix,           \* PromptMatcher.prefixPattern is set
    shellState,         \* ShellScene.shellState: <<>> is null, else <<state>>
    shCall              \* <<>>, or <<the last detect() or continue() call and what it gave>>

shVars == <<shPrefix, shellState, shCall>>

VARIABLES
    \* ---- channels (DumpChannel, WebChannel)
    dcWriter,           \* DumpChannel.writer: "null", or a DumpWriter "open" or "closed"
    wcWaitForClient,    \* WebChannel.options.waitForClient
    wcServer,           \* WebChannel.server is not null
    wcClients,          \* WebChannel.clients.size
    wcSend,             \* WebChannel.send is not null
    wcResolve,          \* WebChannel.clientConnectedResolve is not null
    chnStopped,         \* per channel: stop() has completed and start() was not called since
    chnCall             \* <<>>, or <<the last call on a channel and how it ended>>

chnVars == <<dcWriter, wcWaitForClient, wcServer, wcClients, wcSend, wcResolve, chnStopped,
             chnCall>>

VARIABLES
    \* ---- structured input (parseSceneInput, Gateway.send)
    siHasWrite,         \* the Gateway was given a write callback
    siParsed,           \* what parseSceneInput returned last; <<>> is null
    siWritten           \* the strings written to the PTY for it, in order

siVars == <<siHasWrite, siParsed, siWritten>>

VARIABLES
    \* ---- overlapping replaceChannels() calls, and the Attacher that makes them
    ccChannels,         \* Gateway.channels
    ccStatus,           \* each channel: "new", "starting", "started", "failed" or "stopped"
    ccPc,               \* each call: "idle", "stopping", "starting", "rollback",
                        \*            "resolved" or "rejected"
    ccNew,              \* each call: the `channels` argument
    ccStarted,          \* each call: `started`
    atPhase,            \* the Attacher: "off", "new", "starting", "started" or "failed"
    atApply,            \* apply(): "none", "loading" or "channels" (awaiting replaceChannels)
    atReloading,        \* Attacher.reloading
    atConfig,           \* Attacher.config is not null
    atWatchers,         \* FileWatch.watchers: the paths watched
    atStop              \* stop(): "none", "channels" (awaiting replaceChannels) or "done"

atVars == <<ccChannels, ccStatus, ccPc, ccNew, ccStarted, atPhase, atApply, atReloading,
            atConfig, atWatchers, atStop>>

VARIABLES
    \* ---- a run of the shell scene over one terminal's snapshots
    emittedRanges,      \* the latest two text ranges emitted since the scene (re)started
    lastOffset          \* linesOffset of the previous snapshot; <<>> before the first

runVars == <<emittedRanges, lastOffset>>

vars == <<codecVars, dumpVars, rdVars, vtVars, compVars, gwVars, sbVars, fsVars, shVars, chnVars, siVars, atVars, runVars>>

\* What each component's steps leave alone.
exceptCodec == <<dumpVars, rdVars, vtVars, compVars, gwVars, sbVars, fsVars, shVars, chnVars, siVars, atVars, runVars>>
exceptDump == <<codecVars, rdVars, vtVars, compVars, gwVars, sbVars, fsVars, shVars, chnVars, siVars, atVars, runVars>>
exceptReader == <<codecVars, vtVars, compVars, gwVars, sbVars, fsVars, shVars, chnVars, siVars, atVars, runVars>>
exceptVt == <<codecVars, dumpVars, rdVars, compVars, gwVars, sbVars, fsVars, shVars, chnVars, siVars, atVars, runVars>>
exceptComposite == <<codecVars, dumpVars, rdVars, vtVars, gwVars, sbVars, fsVars, shVars, chnVars, siVars, atVars, runVars>>
exceptGateway == <<codecVars, dumpVars, rdVars, vtVars, sbVars, fsVars, shVars, chnVars, siVars, atVars, runVars>>
exceptScrollback == <<codecVars, dumpVars, rdVars, vtVars, compVars, gwVars, fsVars, shVars, chnVars, siVars, atVars, runVars>>
exceptShell == <<codecVars, dumpVars, rdVars, vtVars, compVars, gwVars, sbVars, fsVars, chnVars, siVars, atVars, runVars>>
exceptScheduler == <<codecVars, dumpVars, rdVars, vtVars, compVars, gwVars, sbVars, shVars, chnVars, siVars, atVars, runVars>>
exceptChannels == <<codecVars, dumpVars, rdVars, vtVars, compVars, gwVars, sbVars, fsVars, shVars, siVars, atVars, runVars>>
exceptInput == <<codecVars, dumpVars, rdVars, vtVars, compVars, gwVars, sbVars, fsVars, shVars, chnVars, atVars, runVars>>
exceptAttacher == <<codecVars, dumpVars, rdVars, vtVars, compVars, gwVars, sbVars, fsVars, shVars, chnVars, siVars, runVars>>
exceptShellRun == <<codecVars, dumpVars, rdVars, vtVars, compVars, gwVars, sbVars, fsVars, chnVars, siVars, atVars>>

----------------------------------------------------------------------------
(* Bounds of the codec's inputs *)

\* Longest `lines` array of an input snapshot.
MaxLines == 2
\* Largest linesOffset of an input snapshot (larger than MaxLines, so that a
\* shift can exceed prev.lines.length).
MaxOffset == 3
\* Most snapshots written to one dump.
MaxWrites == 3
\* Most write() calls on one virtual terminal.
MaxVtWrites == 3
\* Child scenes of the composite scene.
MaxScenes == 3
\* Channels ever given to one gateway.
MaxChannels == 3
\* Most update() calls on one gateway.
MaxUpdates == 2
\* Most scenes given to one replaceScenes() call.
MaxGatewayScenes == 1
\* Largest `scrollback` option of an emulator.
MaxScrollback == 2
\* Most lines trimmed from the front of one terminal's buffer.
MaxTrimmed == 3
\* The time in ms up to which one flush scheduler is followed.
MaxNow == 500
\* Most snapshots in one dump that is queried.
MaxReaderWrites == 3
\* Most lines in a snapshot given to the shell scene.
MaxShellLines == 3
\* Largest linesOffset of a snapshot given to the shell scene.
MaxShellOffset == 2
\* Most WebSocket clients connected to a WebChannel.
MaxClients == 2
\* Most characters in the content of a text input.
MaxContentLen == 3

----------------------------------------------------------------------------
(* Rich text *)

Plain(s) == [kind |-> "plain", text |-> s, segs |-> <<>>]
Rich(ss) == [kind |-> "rich", text |-> "", segs |-> ss]
StrSeg(s) ==
    [kind |-> "str", t |-> s, fg |-> "none", bg |-> "none", b |-> FALSE, d |-> FALSE,
     i |-> FALSE, u |-> FALSE, s |-> FALSE, v |-> FALSE, o |-> FALSE]
BoldSeg(s) == [StrSeg(s) EXCEPT !.kind = "styled", !.b = TRUE]
\* The slot `lines.length = n` or an out-of-range read leaves behind.
Undefined == [kind |-> "undefined", text |-> "", segs |-> <<>>]

richSegmentEqual(a, b) ==
    IF a.kind = "str" \/ b.kind = "str"
    THEN a.kind = b.kind /\ a.t = b.t
    ELSE /\ a.t = b.t /\ a.fg = b.fg /\ a.bg = b.bg /\ a.b = b.b /\ a.d = b.d
         /\ a.i = b.i /\ a.u = b.u /\ a.s = b.s /\ a.v = b.v /\ a.o = b.o

richTextEqual(a, b) ==
    IF a.kind = "plain" \/ b.kind = "plain"
    THEN a.kind = b.kind /\ a.text = b.text
    ELSE /\ Len(a.segs) = Len(b.segs)
         /\ \A k \in 1..Len(a.segs) : richSegmentEqual(a.segs[k], b.segs[k])

richTextLinesEqual(a, b) ==
    /\ Len(a) = Len(b)
    /\ \A k \in 1..Len(a) : richTextEqual(a[k], b[k])

snapshotsEqual(a, b) ==
    /\ a.cursor.x = b.cursor.x
    /\ a.cursor.y = b.cursor.y
    /\ a.cursor.visible = b.cursor.visible
    /\ a.cols = b.cols
    /\ a.rows = b.rows
    /\ a.alternate = b.alternate
    /\ a.linesOffset = b.linesOffset
    /\ richTextLinesEqual(a.lines, b.lines)

----------------------------------------------------------------------------
(* computeSnapshotDiff / applySnapshotDiff *)

\* The latest `n` entries of a history with one more entry.
Latest(history, entry, n) ==
    IF Len(history) < n THEN Append(history, entry)
    ELSE Append(Tail(history), entry)

Max(a, b) == IF a >= b THEN a ELSE b
Min(a, b) == IF a <= b THEN a ELSE b

\* `x ?? 0` on a nullable number
OrZero(opt) == IF opt = <<>> THEN 0 ELSE opt[1]

\* lines.slice(n): the lines from 0-based index n on
Slice(lines, n) == IF n >= Len(lines) THEN <<>> ELSE SubSeq(lines, n + 1, Len(lines))

Patch(i, content) == [index |-> i, isNull |-> FALSE, content |-> content]
Truncation(i) == [index |-> i, isNull |-> TRUE, content |-> Undefined]

\* The first loop: the differing indices of the overlap [lo, overlapEnd).
RECURSIVE OverlapPatches(_, _, _, _, _)
OverlapPatches(prev, curr, shift, k, overlapEnd) ==
    IF k >= overlapEnd THEN <<>>
    ELSE (IF richTextEqual(prev.lines[shift + k + 1], curr.lines[k + 1])
          THEN <<>> ELSE <<Patch(k, curr.lines[k + 1])>>)
         \o OverlapPatches(prev, curr, shift, k + 1, overlapEnd)

\* The second loop: the lines appended beyond the previous range.
RECURSIVE AppendedPatches(_, _)
AppendedPatches(curr, k) ==
    IF k >= Len(curr.lines) THEN <<>>
    ELSE <<Patch(k, curr.lines[k + 1])>> \o AppendedPatches(curr, k + 1)

\* The truncation marker of the third step.
TruncationPatches_None(curr, prevAfterShift) == <<>>
TruncationPatches(curr, prevAfterShift) ==
    IF Len(curr.lines) < prevAfterShift THEN <<Truncation(Len(curr.lines))>> ELSE <<>>

ChangedLines(prev, curr, shift) ==
    LET prevAfterShift == Len(prev.lines) - shift
        overlapEnd == Max(0, Min(Len(curr.lines), prevAfterShift))
    IN  OverlapPatches(prev, curr, shift, 0, overlapEnd)
        \o AppendedPatches(curr, Max(0, prevAfterShift))
        \o TruncationPatches(curr, prevAfterShift)

CursorChanged(prev, curr) ==
    \/ prev.cursor.x # curr.cursor.x
    \/ prev.cursor.y # curr.cursor.y
    \/ prev.cursor.visible # curr.cursor.visible

\* <<>> is the null result (keyframe required), else <<delta>>.
computeSnapshotDiff(prev, curr) ==
    IF curr.linesOffset = <<>> THEN <<>>
    ELSE LET shift == curr.linesOffset[1] - OrZero(prev.linesOffset)
         IN  IF shift < 0 THEN <<>>
             ELSE LET changedLines == ChangedLines(prev, curr, shift)
                  IN  << [shift |-> IF shift > 0 THEN <<shift>> ELSE <<>>,
                          lines |-> IF Len(changedLines) > 0 THEN <<changedLines>> ELSE <<>>,
                          cursor |-> IF CursorChanged(prev, curr) THEN <<curr.cursor>> ELSE <<>>,
                          cols |-> IF prev.cols # curr.cols THEN <<curr.cols>> ELSE <<>>,
                          rows |-> IF prev.rows # curr.rows THEN <<curr.rows>> ELSE <<>>,
                          alternate |-> IF prev.alternate # curr.alternate
                                        THEN <<curr.alternate>> ELSE <<>>] >>

\* `while (lines.length <= index) lines.push("")`
RECURSIVE PadTo(_, _)
PadTo(lines, index) ==
    IF Len(lines) <= index THEN PadTo(Append(lines, Plain("")), index) ELSE lines

\* `lines.length = index`: cut, or grow with empty slots
SetLength(lines, index) ==
    IF index <= Len(lines) THEN SubSeq(lines, 1, index)
    ELSE lines \o [k \in 1..(index - Len(lines)) |-> Undefined]

\* The patch loop of applySnapshotDiff, from the k-th patch on; it stops at
\* the first null entry.
RECURSIVE ApplyPatches(_, _, _)
ApplyPatches(lines, patches, k) ==
    IF k > Len(patches) THEN lines
    ELSE IF patches[k].isNull THEN SetLength(lines, patches[k].index)
    ELSE ApplyPatches([PadTo(lines, patches[k].index)
                          EXCEPT ![patches[k].index + 1] = patches[k].content],
                      patches, k + 1)

\* `delta.shift ? base.lines.slice(delta.shift) : [...base.lines]`
ShiftedLines(base, delta) ==
    IF delta.shift # <<>> /\ delta.shift[1] # 0
    THEN Slice(base.lines, delta.shift[1]) ELSE base.lines

\* `delta.f ?? base.f`
OrBase(opt, base) == IF opt = <<>> THEN base ELSE opt[1]

applySnapshotDiff(base, delta, timestamp) ==
    [lines |-> IF delta.lines # <<>>
               THEN ApplyPatches(ShiftedLines(base, delta), delta.lines[1], 1)
               ELSE ShiftedLines(base, delta),
     cursor |-> OrBase(delta.cursor, base.cursor),
     cols |-> OrBase(delta.cols, base.cols),
     rows |-> OrBase(delta.rows, base.rows),
     alternate |-> OrBase(delta.alternate, base.alternate),
     linesOffset |-> <<OrZero(base.linesOffset) + OrZero(delta.shift)>>,
     timestamp |-> timestamp]

----------------------------------------------------------------------------
(* The codec's inputs and its two operations as steps *)

SeqsUpTo(S, n) == UNION {[1..k -> S] : k \in 0..n}

CodecRichTexts == {Plain("a"), Rich(<<StrSeg("a")>>), Rich(<<BoldSeg("a")>>)}
CodecLines == SeqsUpTo(CodecRichTexts, MaxLines)
CodecOffsets == {<<>>} \cup {<<n>> : n \in 0..MaxOffset}

\* cursor, cols, rows, alternate of the base profile, and the profiles that
\* differ from it in one field
Scalars(cx, cy, cv, c, r, a) ==
    [cursor |-> [x |-> cx, y |-> cy, visible |-> cv], cols |-> c, rows |-> r, alternate |-> a]
CodecPrevScalars == {Scalars(0, 0, TRUE, 80, 24, FALSE), Scalars(0, 0, TRUE, 80, 24, TRUE)}
CodecCurrScalars ==
    {Scalars(0, 0, TRUE, 80, 24, FALSE), Scalars(0, 0, TRUE, 80, 24, TRUE),
     Scalars(5, 0, TRUE, 80, 24, FALSE), Scalars(0, 1, TRUE, 80, 24, FALSE),
     Scalars(0, 0, FALSE, 80, 24, FALSE), Scalars(0, 0, TRUE, 120, 24, FALSE),
     Scalars(0, 0, TRUE, 80, 40, FALSE)}

MkSnapshot(lines, sc, off, ts) ==
    [lines |-> lines, cursor |-> sc.cursor, cols |-> sc.cols, rows |-> sc.rows,
     alternate |-> sc.alternate, linesOffset |-> off, timestamp |-> ts]

CodecPrevs == {MkSnapshot(l, sc, off, 1000) :
                 l \in CodecLines, sc \in CodecPrevScalars, off \in CodecOffsets}
CodecCurrs == {MkSnapshot(l, sc, off, 2000) :
                 l \in CodecLines, sc \in CodecCurrScalars, off \in CodecOffsets}

\* The codec's variables while another component is explored
CodecIdle ==
    /\ dPrev = <<>> /\ dCurr = <<>> /\ dDelta = <<>> /\ dOut = <<>> /\ dpc = "off"

CodecInit ==
    /\ dPrev \in CodecPrevs
    /\ dCurr \in CodecCurrs
    /\ dDelta = <<>>
    /\ dOut = <<>>
    /\ dpc = "input"

\* const delta = computeSnapshotDiff(prev, curr); null asks for a keyframe
Diff ==
    /\ dpc = "input"
    /\ dDelta' = computeSnapshotDiff(dPrev, dCurr)
    /\ dpc' = IF dDelta' = <<>> THEN "keyframe" ELSE "diffed"
    /\ UNCHANGED <<dPrev, dCurr, dOut>>

\* const result = applySnapshotDiff(prev, delta, curr.timestamp)
Apply ==
    /\ dpc = "diffed"
    /\ dOut' = <<applySnapshotDiff(dPrev, dDelta[1], dCurr.timestamp)>>
    /\ dpc' = "applied"
    /\ UNCHANGED <<dPrev, dCurr, dDelta>>


\* C1: whenever computeSnapshotDiff(prev, curr) is non-null, the snapshot
\* applySnapshotDiff(prev, diff, curr.timestamp) returns is curr in every field
\* (lines, cursor, cols, rows, alternate, linesOffset and timestamp), also when
\* prev.linesOffset is null and when the shift exceeds prev.lines.length.
C1_DiffRoundTrip ==
    dpc = "applied" =>
        /\ dOut[1].lines = dCurr.lines
        /\ dOut[1].cursor = dCurr.cursor
        /\ dOut[1].cols = dCurr.cols
        /\ dOut[1].rows = dCurr.rows
        /\ dOut[1].alternate = dCurr.alternate
        /\ dOut[1].linesOffset = dCurr.linesOffset
        /\ dOut[1].timestamp = dCurr.timestamp

\* A round trip from a base whose linesOffset is null, with a shift larger than
\* the base's line count, new lines and a changed cursor.
C1_Witness ==
    /\ dpc = "applied"
    /\ dPrev.linesOffset = <<>>
    /\ dDelta[1].shift # <<>>
    /\ dDelta[1].shift[1] > Len(dPrev.lines)
    /\ Len(dPrev.lines) > 0
    /\ dDelta[1].lines # <<>>
    /\ dDelta[1].cursor # <<>>

----------------------------------------------------------------------------
(* Dump frames: encodeFrame / decodeFrame                                  *)
(*                                                                         *)
(* The file is modelled as its frames in order plus its byte length; a     *)
(* frame occupies FRAME_HEADER_SIZE + length bytes.  The payload bytes are *)
(* msgpackr's; only their count is modelled (plain MessagePack maps with   *)
(* one-character strings), the value is kept as packed.                    *)

FRAME_HEADER_SIZE == 13
HEADER == 1
KEYFRAME == 2
DELTA == 3

PackedSegSize(seg) == IF seg.kind = "str" THEN 2 ELSE 8

RECURSIVE PackedSegsSize(_)
PackedSegsSize(segs) ==
    IF segs = <<>> THEN 0 ELSE PackedSegSize(Head(segs)) + PackedSegsSize(Tail(segs))

PackedLineSize(rt) == IF rt.kind = "plain" THEN 2 ELSE 1 + PackedSegsSize(rt.segs)

RECURSIVE PackedLinesSize(_)
PackedLinesSize(lines) ==
    IF lines = <<>> THEN 0 ELSE PackedLineSize(Head(lines)) + PackedLinesSize(Tail(lines))

PackedPatchSize(pt) == 2 + (IF pt.isNull THEN 1 ELSE PackedLineSize(pt.content))

RECURSIVE PackedPatchesSize(_)
PackedPatchesSize(patches) ==
    IF patches = <<>> THEN 0
    ELSE PackedPatchSize(Head(patches)) + PackedPatchesSize(Tail(patches))
PackedCursorSize == 7 + 1 + 2 + 1 + 2 + 1 + 8 + 1

PackedKeyframeSize(rest) ==
    1 + (6 + 1 + PackedLinesSize(rest.lines)) + PackedCursorSize
      + (5 + 1) + (5 + 1) + (10 + 1) + (12 + 1)

PackedDeltaSize(delta) ==
    1 + (IF delta.shift = <<>> THEN 0 ELSE 6 + 1)
      + (IF delta.lines = <<>> THEN 0 ELSE 6 + 1 + PackedPatchesSize(delta.lines[1]))
      + (IF delta.cursor = <<>> THEN 0 ELSE PackedCursorSize)
      + (IF delta.cols = <<>> THEN 0 ELSE 5 + 1)
      + (IF delta.rows = <<>> THEN 0 ELSE 5 + 1)
      + (IF delta.alternate = <<>> THEN 0 ELSE 10 + 1)

PackedSize(type, payload) ==
    CASE type = "header" -> 1 + 8 + 1 + 3 * Len(payload.command)
      [] type = "keyframe" -> PackedKeyframeSize(payload)
      [] type = "delta" -> PackedDeltaSize(payload)

TypeTag(type) ==
    CASE type = "header" -> HEADER
      [] type = "keyframe" -> KEYFRAME
      [] type = "delta" -> DELTA

\* The bytes of one frame: tag, timestamp, payload length, payload.
encodeFrame(frame) ==
    [tag |-> TypeTag(frame.type), timestamp |-> frame.timestamp,
     length |-> PackedSize(frame.type, frame.payload), payload |-> frame.payload]

\* buf.length of an encoded frame
FrameBytes(enc) == FRAME_HEADER_SIZE + enc.length

RECURSIVE StartOffset(_, _)
\* The byte offset at which the k-th frame of the file starts.
StartOffset(frames, k) ==
    IF k = 1 THEN 0 ELSE StartOffset(frames, k - 1) + FrameBytes(frames[k - 1])

\* <<>> is null, else <<[frame, nextOffset]>>.
decodeFrame(buffer, offset) ==
    IF offset + FRAME_HEADER_SIZE > buffer.length THEN <<>>
    ELSE LET ks == {k \in 1..Len(buffer.frames) : StartOffset(buffer.frames, k) = offset}
         IN  IF ks = {} THEN <<>>
             ELSE LET enc == buffer.frames[CHOOSE k \in ks : TRUE]
                      nextOffset == offset + FRAME_HEADER_SIZE + enc.length
                  IN  IF nextOffset > buffer.length THEN <<>>
                      ELSE IF enc.tag \notin {HEADER, KEYFRAME, DELTA} THEN <<>>
                      ELSE << [frame |-> [type |-> CASE enc.tag = HEADER -> "header"
                                                     [] enc.tag = KEYFRAME -> "keyframe"
                                                     [] enc.tag = DELTA -> "delta",
                                          timestamp |-> enc.timestamp,
                                          payload |-> enc.payload],
                               nextOffset |-> nextOffset] >>

\* this.writer.write(bytes): append to the file
AppendFrame(f, enc) ==
    [frames |-> Append(f.frames, enc), length |-> f.length + FrameBytes(enc)]

----------------------------------------------------------------------------
(* DumpWriter *)

DefaultKeyframeIntervalMs == 5000
DefaultKeyframeSizeRatio == 2

\* `const { timestamp: _, ...rest } = snapshot`
WithoutTimestamp(snap) ==
    [lines |-> snap.lines, cursor |-> snap.cursor, cols |-> snap.cols, rows |-> snap.rows,
     alternate |-> snap.alternate, linesOffset |-> snap.linesOffset]

\* `{ ...record.payload, timestamp: record.timestamp }`
WithTimestamp(rest, ts) ==
    [lines |-> rest.lines, cursor |-> rest.cursor, cols |-> rest.cols, rows |-> rest.rows,
     alternate |-> rest.alternate, linesOffset |-> rest.linesOffset, timestamp |-> ts]

\* The keyframe policy of write(): may this snapshot be tried as a delta?
CanDelta_NoSizeRule(snapshot) == snapshot.timestamp - wLastKeyframeTime < wIntervalMs
CanDelta(snapshot) ==
    /\ snapshot.timestamp - wLastKeyframeTime < wIntervalMs
    /\ ~(wLastKeyframeSize > 0 /\ wBytesSinceKeyframe > wLastKeyframeSize * wSizeRatio)

\* The delta write() decided on: <<>> for a keyframe.
WriterDelta(snapshot) ==
    IF wLastSnapshot # <<>> /\ CanDelta(snapshot)
    THEN computeSnapshotDiff(wLastSnapshot[1], snapshot)
    ELSE <<>>

\* DumpWriter.write(snapshot)
WriterWrite(snapshot) ==
    /\ wOpen
    /\ LET delta == WriterDelta(snapshot)
       IN  IF delta # <<>>
           THEN LET frame == encodeFrame([type |-> "delta", timestamp |-> snapshot.timestamp,
                                          payload |-> delta[1]])
                IN  /\ file' = AppendFrame(file, frame)
                    /\ wBytesSinceKeyframe' = wBytesSinceKeyframe + FrameBytes(frame)
                    /\ UNCHANGED <<wLastKeyframeTime, wLastKeyframeSize>>
           ELSE LET frame == encodeFrame([type |-> "keyframe", timestamp |-> snapshot.timestamp,
                                          payload |-> WithoutTimestamp(snapshot)])
                IN  /\ file' = AppendFrame(file, frame)
                    /\ wLastKeyframeTime' = snapshot.timestamp
                    /\ wLastKeyframeSize' = FrameBytes(frame)
                    /\ wBytesSinceKeyframe' = 0
    /\ wLastSnapshot' = <<snapshot>>
    /\ written' = Append(written, snapshot)
    /\ UNCHANGED <<wOpen, wIntervalMs, wSizeRatio, rIndex, rOut>>

\* DumpWriter.end()
WriterEnd ==
    /\ wOpen
    /\ wOpen' = FALSE
    /\ UNCHANGED <<wIntervalMs, wSizeRatio, wLastSnapshot, wLastKeyframeTime,
                   wBytesSinceKeyframe, wLastKeyframeSize, file, written, rIndex, rOut>>

----------------------------------------------------------------------------
(* DumpReader *)

\* The scan loop of the constructor, from `offset` on: the index entries of
\* the keyframe and delta frames, until the buffer ends or a frame fails to
\* decode.
RECURSIVE ScanFrames(_, _)
ScanFrames(buffer, offset) ==
    IF offset >= buffer.length THEN <<>>
    ELSE LET r == decodeFrame(buffer, offset)
         IN  IF r = <<>> THEN <<>>
             ELSE (IF r[1].frame.type \in {"keyframe", "delta"}
                   THEN << [offset |-> offset, type |-> r[1].frame.type,
                            timestamp |-> r[1].frame.timestamp] >>
                   ELSE <<>>)
                  \o ScanFrames(buffer, r[1].nextOffset)

\* Whether the constructor finds the header frame it insists on.
HasHeader(buffer) ==
    LET h == decodeFrame(buffer, 0) IN h # <<>> /\ h[1].frame.type = "header"

\* The index the constructor builds.
BuildIndex(buffer) == ScanFrames(buffer, decodeFrame(buffer, 0)[1].nextOffset)

RECURSIVE findKeyframeBefore(_, _)
\* 0-based index of the nearest keyframe at or before idx, or -1
findKeyframeBefore(index, idx) ==
    IF idx < 0 THEN -1
    ELSE IF index[idx + 1].type = "keyframe" THEN idx
    ELSE findKeyframeBefore(index, idx - 1)

\* One record replayed onto `current`: a keyframe replaces it, a delta is
\* applied to it with the record's timestamp, a header leaves it.
ReplayRecord_StaleTimestamp(record, current) ==
    IF record.type = "keyframe"
    THEN <<WithTimestamp(record.payload, record.timestamp)>>
    ELSE IF record.type = "delta"
    THEN <<applySnapshotDiff(current[1], record.payload, current[1].timestamp)>>
    ELSE current
ReplayRecord(record, current) ==
    IF record.type = "keyframe"
    THEN <<WithTimestamp(record.payload, record.timestamp)>>
    ELSE IF record.type = "delta"
    THEN <<applySnapshotDiff(current[1], record.payload, record.timestamp)>>
    ELSE current

\* `throw new Error("Delta frame before any keyframe")`, where a generator
\* ends by throwing
DeltaBeforeKeyframe == [error |-> "Delta frame before any keyframe"]
IsError(entry) == "error" \in DOMAIN entry

\* The loop of reconstruct(), at 0-based position i with `current` the
\* snapshot rebuilt so far (<<>> for null): the snapshots yielded, ending
\* with DeltaBeforeKeyframe if the loop threw.
RECURSIVE reconstruct(_, _, _, _, _, _)
reconstruct(buffer, index, i, endIdx, yieldFrom, current) ==
    IF i > endIdx THEN <<>>
    ELSE LET result == decodeFrame(buffer, index[i + 1].offset)
         IN  IF result = <<>> THEN <<>>
             ELSE LET record == result[1].frame
                  IN  IF record.type = "delta" /\ current = <<>>
                      THEN <<DeltaBeforeKeyframe>>
                      ELSE LET next == ReplayRecord(record, current)
                           IN  (IF i >= yieldFrom /\ next # <<>> THEN next ELSE <<>>)
                               \o reconstruct(buffer, index, i + 1, endIdx, yieldFrom, next)

\* snapshots() with no argument, drained
snapshotsAll(buffer, index) ==
    IF Len(index) = 0 THEN <<>>
    ELSE LET startKeyframe == findKeyframeBefore(index, 0)
         IN  IF startKeyframe < 0 THEN <<>>
             ELSE reconstruct(buffer, index, startKeyframe, Len(index) - 1, 0, <<>>)

\* DumpReader.open(file): the constructor, on a file whose writer has ended
ReaderOpen ==
    /\ ~wOpen
    /\ rIndex = <<>>
    /\ HasHeader(file)
    /\ rIndex' = <<BuildIndex(file)>>
    /\ UNCHANGED <<wOpen, wIntervalMs, wSizeRatio, wLastSnapshot, wLastKeyframeTime,
                   wBytesSinceKeyframe, wLastKeyframeSize, file, written, rOut>>

\* [...reader.snapshots()]
ReaderSnapshots ==
    /\ rIndex # <<>>
    /\ rOut = <<>>
    /\ rOut' = <<snapshotsAll(file, rIndex[1])>>
    /\ UNCHANGED <<wOpen, wIntervalMs, wSizeRatio, wLastSnapshot, wLastKeyframeTime,
                   wBytesSinceKeyframe, wLastKeyframeSize, file, written, rIndex>>

----------------------------------------------------------------------------
(* The snapshots written to a dump *)

DumpBodies ==
    {[lines |-> <<Plain("a")>>, sc |-> Scalars(0, 0, TRUE, 80, 24, FALSE)],
     [lines |-> <<Plain("b"), Rich(<<BoldSeg("a")>>), Plain("c")>>,
      sc |-> Scalars(0, 1, TRUE, 80, 24, FALSE)],
     [lines |-> <<>>, sc |-> Scalars(0, 0, FALSE, 120, 40, TRUE)]}
DumpOffsets == {<<>>, <<0>>, <<2>>}
\* Gaps between the timestamps of consecutive snapshots: short, and one
\* keyframe interval.
DumpGaps == {10, DefaultKeyframeIntervalMs}

\* The timestamp of the last snapshot written (of the header before the first)
LastWrittenTime == IF written = <<>> THEN 1000 ELSE written[Len(written)].timestamp

DumpInputs ==
    {MkSnapshot(bd.lines, bd.sc, off, LastWrittenTime + gap) :
        bd \in DumpBodies, off \in DumpOffsets, gap \in DumpGaps}

\* The dump's variables while another component is explored
DumpIdle ==
    /\ wOpen = FALSE /\ wIntervalMs = 0 /\ wSizeRatio = 0 /\ wLastSnapshot = <<>>
    /\ wLastKeyframeTime = 0 /\ wBytesSinceKeyframe = 0 /\ wLastKeyframeSize = 0
    /\ file = [frames |-> <<>>, length |-> 0] /\ written = <<>>
    /\ rIndex = <<>> /\ rOut = <<>>
    /\ rdForeign = <<>> /\ rdQuery = <<>>

\* new DumpWriter(filePath, header, options): the header frame is written
DumpInit ==
    /\ wOpen = TRUE
    /\ wIntervalMs = DefaultKeyframeIntervalMs
    /\ wSizeRatio \in {DefaultKeyframeSizeRatio, 1}
    /\ wLastSnapshot = <<>>
    /\ wLastKeyframeTime = 0
    /\ wBytesSinceKeyframe = 0
    /\ wLastKeyframeSize = 0
    /\ file = AppendFrame([frames |-> <<>>, length |-> 0],
                          encodeFrame([type |-> "header", timestamp |-> 1000,
                                       payload |-> [command |-> <<"sh">>]]))
    /\ written = <<>>
    /\ rIndex = <<>>
    /\ rOut = <<>>
    /\ rdForeign = <<>>
    /\ rdQuery = <<>>

Write == \E snapshot \in DumpInputs : Len(written) < MaxWrites /\ WriterWrite(snapshot)

----------------------------------------------------------------------------
(* DumpReader queries *)

\* The loop of upperBound(target): 0-based index of the last entry with
\* timestamp <= target, -1 if there is none.
RECURSIVE UpperBoundLoop(_, _, _, _, _)
UpperBoundLoop(index, target, lo, hi, result) ==
    IF lo > hi THEN result
    ELSE LET mid == (lo + hi) \div 2
         IN  IF index[mid + 1].timestamp <= target
             THEN UpperBoundLoop(index, target, mid + 1, hi, mid)
             ELSE UpperBoundLoop(index, target, lo, mid - 1, result)

upperBound_First(index, target) ==
    IF index # <<>> /\ index[1].timestamp <= target THEN 0 ELSE -1
upperBound(index, target) == UpperBoundLoop(index, target, 0, Len(index) - 1, -1)

\* The loop of lowerBound(target): 0-based index of the first entry with
\* timestamp >= target, index.length if there is none.
RECURSIVE LowerBoundLoop(_, _, _, _, _)
LowerBoundLoop(index, target, lo, hi, result) ==
    IF lo > hi THEN result
    ELSE LET mid == (lo + hi) \div 2
         IN  IF index[mid + 1].timestamp >= target
             THEN LowerBoundLoop(index, target, lo, mid - 1, mid)
             ELSE LowerBoundLoop(index, target, mid + 1, hi, result)

lowerBound(index, target) == LowerBoundLoop(index, target, 0, Len(index) - 1, Len(index))

\* What a call gave: it threw, or it returned `value`.
Returned(value) == [threw |-> FALSE, value |-> value]
Threw(value) == [threw |-> TRUE, value |-> value]

\* A generator drained: the snapshots it yielded, and whether it ended by
\* throwing.
Drained(yielded) ==
    IF yielded # <<>> /\ IsError(yielded[Len(yielded)])
    THEN Threw(SubSeq(yielded, 1, Len(yielded) - 1))
    ELSE Returned(yielded)

\* Where reconstruct() starts for snapshots(from).
ReplayStart_AtTarget(index, yieldFrom) == yieldFrom
ReplayStart(index, yieldFrom) == findKeyframeBefore(index, yieldFrom)

\* snapshotNearestTo(timestamp): <<>> is null, else <<snapshot>>
snapshotNearestTo(buffer, index, timestamp) ==
    IF Len(index) = 0 THEN Returned(<<>>)
    ELSE LET targetIdx == upperBound(index, timestamp)
         IN  IF targetIdx < 0 THEN Returned(<<>>)
             ELSE LET keyframeIdx == findKeyframeBefore(index, targetIdx)
                  IN  IF keyframeIdx < 0 THEN Returned(<<>>)
                      ELSE LET out == reconstruct(buffer, index, keyframeIdx, targetIdx,
                                                  targetIdx, <<>>)
                           IN  IF out = <<>> THEN Returned(<<>>)
                               ELSE IF IsError(out[1]) THEN Threw(<<>>)
                               ELSE Returned(<<out[1]>>)

\* [...snapshots(from)]: `from` is <<>> for undefined, else <<timestamp>>
snapshots(buffer, index, from) ==
    IF Len(index) = 0 THEN Returned(<<>>)
    ELSE LET yieldFrom == IF from = <<>> THEN 0 ELSE lowerBound(index, from[1])
         IN  IF yieldFrom >= Len(index) THEN Returned(<<>>)
             ELSE LET startKeyframe == ReplayStart(index, yieldFrom)
                  IN  IF startKeyframe < 0 THEN Returned(<<>>)
                      ELSE Drained(reconstruct(buffer, index, startKeyframe,
                                               Len(index) - 1, yieldFrom, <<>>))

\* The snapshots a queried dump is written from: two screens, at the same
\* time as the one before, shortly after it, or one keyframe interval later.
ReaderGaps == {0, 10, DefaultKeyframeIntervalMs}
ReaderInputs ==
    {MkSnapshot(lines, Scalars(0, 0, TRUE, 80, 24, FALSE), <<0>>, LastWrittenTime + gap) :
        lines \in {<<Plain("a")>>, <<Plain("a"), Plain("b")>>}, gap \in ReaderGaps}

\* A frame with a type tag no version of the format defines.
UnknownFrame(ts) == [tag |-> 9, timestamp |-> ts, length |-> 4, payload |-> <<>>]

\* A delta frame: the second line of a two-line screen appeared.
StrayDelta(ts) ==
    encodeFrame([type |-> "delta", timestamp |-> ts,
                 payload |-> computeSnapshotDiff(
                     MkSnapshot(<<Plain("a")>>, Scalars(0, 0, TRUE, 80, 24, FALSE), <<0>>, ts),
                     MkSnapshot(<<Plain("a"), Plain("b")>>,
                                Scalars(0, 0, TRUE, 80, 24, FALSE), <<0>>, ts))[1]])

\* DumpWriter.write(snapshot) on a dump that is queried later
FixtureWrite ==
    /\ Len(written) < MaxReaderWrites
    /\ \E snapshot \in ReaderInputs : WriterWrite(snapshot)
    /\ UNCHANGED rdVars

\* Another program appends a frame to the open file: a frame of unknown type
\* after at least one snapshot, or a delta right after the header.
ForeignWrite ==
    /\ wOpen
    /\ rdForeign = <<>>
    /\ \E kind \in {"unknown", "delta"} :
          /\ kind = "unknown" => written # <<>>
          /\ kind = "delta" => written = <<>>
          /\ file' = AppendFrame(file, IF kind = "unknown"
                                       THEN UnknownFrame(LastWrittenTime)
                                       ELSE StrayDelta(LastWrittenTime))
          /\ rdForeign' = <<[kind |-> kind, after |-> Len(written)]>>
    /\ UNCHANGED <<wOpen, wIntervalMs, wSizeRatio, wLastSnapshot, wLastKeyframeTime,
                   wBytesSinceKeyframe, wLastKeyframeSize, written, rIndex, rOut, rdQuery>>

\* The timestamps a query asks for: those in the dump, and 1 ms off them.
\* A query reads the file only, so one query per reader shows them all.
QueryTimes ==
    UNION {{written[k].timestamp - 1, written[k].timestamp, written[k].timestamp + 1} :
              k \in DOMAIN written}

\* reader.snapshotNearestTo(t)
ReaderNearest ==
    /\ rIndex # <<>>
    /\ rdQuery = <<>>
    /\ \E t \in QueryTimes :
          rdQuery' = <<[op |-> "snapshotNearestTo", arg |-> <<t>>,
                        out |-> snapshotNearestTo(file, rIndex[1], t)]>>
    /\ UNCHANGED <<dumpVars, rdForeign>>

\* [...reader.snapshots(from)], `from` given or not
ReaderSnapshotsFrom ==
    /\ rIndex # <<>>
    /\ rdQuery = <<>>
    /\ \E from \in {<<>>} \cup {<<t>> : t \in QueryTimes} :
          rdQuery' = <<[op |-> "snapshots", arg |-> from,
                        out |-> snapshots(file, rIndex[1], from)]>>
    /\ UNCHANGED <<dumpVars, rdForeign>>

\* DumpWriter.end(), then DumpReader.open(file)
FixtureEnd == WriterEnd /\ UNCHANGED rdVars
FixtureOpen == ReaderOpen /\ UNCHANGED rdVars

----------------------------------------------------------------------------
(* Virtual terminal: FlushScheduler, the capture loop, the emulator queue  *)
(*                                                                         *)
(* The emulator is abstracted to the screen it has processed: a write      *)
(* carries the screen it leaves behind.  xterm processes its write buffer  *)
(* in order and asynchronously; emulator.flush() is an empty write whose   *)
(* callback resolves the awaited promise.  What a disposed terminal does   *)
(* with its buffer and with takeSnapshot() is the library's: it may go on  *)
(* or stop, return or throw.                                               *)

Screen(lines, sc, off) == [lines |-> lines, sc |-> sc, off |-> off]
InitialScreen == Screen(<<Plain("")>>, Scalars(0, 0, TRUE, 80, 24, FALSE), <<0>>)
VtData ==
    {Screen(<<Plain("static")>>, Scalars(6, 0, TRUE, 80, 24, FALSE), <<0>>),
     Screen(<<Plain("static"), Plain("second")>>, Scalars(6, 0, TRUE, 80, 24, FALSE), <<0>>)}

CapIds == 1..MaxVtWrites

\* Emulator.takeSnapshot(), on the processed screen
takeSnapshot == MkSnapshot(emuScreen.lines, emuScreen.sc, emuScreen.off, clock)

\* FlushScheduler.notify(): both timers run afterwards
Notify ==
    IF schedDisposed THEN UNCHANGED <<debounceTimer, intervalTimer>>
    ELSE /\ debounceTimer' = TRUE
         /\ intervalTimer' = TRUE

\* `if (!this.runningCapture)` of onFlush
MayStartCapture_Always == TRUE
MayStartCapture == runningCapture = <<>>

\* `this.captureNeeded = true` of onFlush
NeededAfterFire_OnlyWhenIdle == runningCapture = <<>>
NeededAfterFire == TRUE

\* `this.captureNeeded = false` at the head of a capture
NeededAfterCaptureStart_Kept == captureNeeded
NeededAfterCaptureStart == FALSE

\* `if (previous && snapshotsEqual(previous, snapshot)) continue`
IsDuplicate_Never(previous, snapshot) == FALSE
IsDuplicate(previous, snapshot) ==
    previous # <<>> /\ snapshotsEqual(previous[1], snapshot)

\* The head of runCapture's loop for coroutine id, captureNeeded being
\* `needed`: begin a capture up to `await this.emulator.flush()`, or leave the
\* loop and clear runningCapture.
LoopHead(id, needed, queue) ==
    IF needed
    THEN /\ captureNeeded' = NeededAfterCaptureStart
         /\ emuQueue' = Append(queue, [kind |-> "flush", id |-> id])
         /\ capPc' = [capPc EXCEPT ![id] = "awaiting"]
         /\ nCaptures' = nCaptures + 1
         /\ firesInFlight' = 0
         /\ runningCapture' = <<id>>
    ELSE /\ captureNeeded' = needed
         /\ emuQueue' = queue
         /\ capPc' = [capPc EXCEPT ![id] = "none"]
         /\ runningCapture' = <<>>
         /\ UNCHANGED <<nCaptures, firesInFlight>>

\* The onFlush callback the constructor hands to the scheduler
OnFlush ==
    IF MayStartCapture
    THEN LoopHead(CHOOSE id \in CapIds : capPc[id] = "none", NeededAfterFire, emuQueue)
    ELSE /\ captureNeeded' = NeededAfterFire
         /\ firesInFlight' = firesInFlight + 1
         /\ UNCHANGED <<emuQueue, capPc, nCaptures, runningCapture>>

\* FlushScheduler.fireCallbacks(): clear both timers, call onFlush
FireCallbacks ==
    /\ debounceTimer' = FALSE
    /\ intervalTimer' = FALSE
    /\ OnFlush
    /\ nFires' = nFires + 1
    /\ UNCHANGED <<vtDisposed, previousSnapshot, schedDisposed, emuScreen, emuSeq,
                   emuDisposed, clock, nWrites, capSeq, changes, lastWriteInFlight>>

\* flush() can resume after `await this.runningCapture`: the promise it awaits
\* is null or the coroutine behind it has returned.
FlushReady ==
    /\ flushPc = "awaiting"
    /\ IF flushAwaits = <<>> THEN TRUE ELSE capPc[flushAwaits[1]] = "none"

\* No continuation of a resolved promise is waiting to run: timers, I/O and
\* callers run only then.
NoMicrotask == (\A id \in CapIds : capPc[id] # "resolved") /\ ~FlushReady

\* VirtualTerminal.write(data)
VtWrite(data) ==
    /\ NoMicrotask
    /\ ~vtDisposed
    /\ nWrites < MaxVtWrites
    /\ nWrites' = nWrites + 1
    /\ emuQueue' = Append(emuQueue, [kind |-> "data", seq |-> nWrites + 1, screen |-> data])
    /\ Notify
    /\ lastWriteInFlight' = (runningCapture # <<>>)
    /\ UNCHANGED <<vtDisposed, previousSnapshot, runningCapture, captureNeeded, capPc,
                   schedDisposed, emuScreen, emuSeq, emuDisposed, clock, capSeq, changes,
                   firesInFlight, nCaptures, nFires, flushVars>>

\* The debounce timer fires
DebounceFire == NoMicrotask /\ debounceTimer /\ FireCallbacks /\ UNCHANGED flushVars

\* The interval timer fires
IntervalFire == NoMicrotask /\ intervalTimer /\ FireCallbacks /\ UNCHANGED flushVars

\* `await this.runningCapture` of flush()
FlushAwaits_Nothing(running) == <<>>
FlushAwaits(running) == running

\* VirtualTerminal.flush(), up to its await: FlushScheduler.flush(), which is
\* a no-op when no timer is set, then `await this.runningCapture`.  A caller
\* has one flush() call outstanding at a time.
VtFlush ==
    /\ NoMicrotask
    /\ ~vtDisposed
    /\ flushPc # "awaiting"
    /\ IF debounceTimer \/ intervalTimer
       THEN FireCallbacks
       ELSE UNCHANGED <<vtDisposed, previousSnapshot, runningCapture, captureNeeded,
                        capPc, debounceTimer, intervalTimer, schedDisposed, emuQueue,
                        emuScreen, emuSeq, emuDisposed, clock, nWrites, capSeq, changes,
                        firesInFlight, nCaptures, nFires, lastWriteInFlight>>
    /\ flushPc' = "awaiting"
    /\ flushAwaits' = FlushAwaits(runningCapture')
    /\ flushWrites' = nWrites
    /\ flushInFlight' = (runningCapture # <<>>)

\* flush() resumes after its await and returns: its promise resolves.
FlushResolve ==
    /\ FlushReady
    /\ \A id \in CapIds : capPc[id] # "resolved"
    /\ flushPc' = "resolved"
    /\ UNCHANGED <<vtDisposed, previousSnapshot, runningCapture, captureNeeded,
                   capPc, debounceTimer, intervalTimer, schedDisposed, emuQueue,
                   emuScreen, emuSeq, emuDisposed, clock, nWrites, capSeq, changes,
                   firesInFlight, nCaptures, nFires, lastWriteInFlight, flushAwaits,
                   flushWrites, flushInFlight>>

\* VirtualTerminal.dispose()
VtDispose ==
    /\ NoMicrotask
    /\ ~vtDisposed
    /\ vtDisposed' = TRUE
    /\ schedDisposed' = TRUE
    /\ debounceTimer' = FALSE
    /\ intervalTimer' = FALSE
    /\ emuDisposed' = TRUE
    /\ UNCHANGED <<previousSnapshot, runningCapture, captureNeeded, capPc, emuQueue,
                   emuScreen, emuSeq, clock, nWrites, capSeq, changes, firesInFlight,
                   nCaptures, nFires, lastWriteInFlight, flushVars>>

\* xterm processes the head of its write buffer
EmuProcess ==
    /\ emuQueue # <<>>
    /\ emuQueue' = Tail(emuQueue)
    /\ IF Head(emuQueue).kind = "data"
       THEN /\ emuScreen' = Head(emuQueue).screen
            /\ emuSeq' = Head(emuQueue).seq
            /\ UNCHANGED capPc
       ELSE /\ capPc' = [capPc EXCEPT ![Head(emuQueue).id] = "resolved"]
            /\ UNCHANGED <<emuScreen, emuSeq>>
    /\ UNCHANGED <<vtDisposed, previousSnapshot, runningCapture, captureNeeded,
                   debounceTimer, intervalTimer, schedDisposed, emuDisposed, clock,
                   nWrites, capSeq, changes, firesInFlight, nCaptures, nFires,
                   lastWriteInFlight, flushVars>>

\* runCapture resumes after `await this.emulator.flush()`: snapshot, dedup,
\* callback, then the loop's head again.  `threw` is takeSnapshot throwing.
CaptureBody(id, threw) ==
    /\ capPc[id] = "resolved"
    /\ IF threw
       THEN UNCHANGED <<previousSnapshot, clock, capSeq, changes>>
       ELSE LET snapshot == takeSnapshot
                previous == previousSnapshot
            IN  /\ previousSnapshot' = <<snapshot>>
                /\ clock' = clock + 1
                /\ capSeq' = emuSeq
                /\ changes' = IF IsDuplicate(previous, snapshot) THEN changes
                              ELSE Append(changes, [snapshot |-> snapshot,
                                                    previous |-> previous,
                                                    disposed |-> vtDisposed])
    /\ LoopHead(id, captureNeeded, emuQueue)
    /\ UNCHANGED <<vtDisposed, debounceTimer, intervalTimer, schedDisposed, emuScreen,
                   emuSeq, emuDisposed, nWrites, nFires, lastWriteInFlight, flushVars>>

CaptureResume == \E id \in CapIds : CaptureBody(id, FALSE)

\* On a disposed terminal takeSnapshot() may throw; the catch swallows it.
CaptureThrow == \E id \in CapIds : emuDisposed /\ CaptureBody(id, TRUE)

\* The virtual terminal's variables while another component is explored
VtIdle ==
    /\ vtDisposed = TRUE /\ previousSnapshot = <<>> /\ runningCapture = <<>>
    /\ captureNeeded = FALSE /\ capPc = [id \in CapIds |-> "none"]
    /\ debounceTimer = FALSE /\ intervalTimer = FALSE /\ schedDisposed = TRUE
    /\ emuQueue = <<>> /\ emuScreen = InitialScreen /\ emuSeq = 0 /\ emuDisposed = TRUE
    /\ clock = 0 /\ nWrites = 0 /\ capSeq = 0 /\ changes = <<>> /\ firesInFlight = 0
    /\ nCaptures = 0 /\ nFires = 0 /\ lastWriteInFlight = FALSE
    /\ flushPc = "none" /\ flushAwaits = <<>> /\ flushWrites = 0 /\ flushInFlight = FALSE

\* new VirtualTerminal(options)
VtInit ==
    /\ vtDisposed = FALSE
    /\ previousSnapshot = <<>>
    /\ runningCapture = <<>>
    /\ captureNeeded = FALSE
    /\ capPc = [id \in CapIds |-> "none"]
    /\ debounceTimer = FALSE
    /\ intervalTimer = FALSE
    /\ schedDisposed = FALSE
    /\ emuQueue = <<>>
    /\ emuScreen = InitialScreen
    /\ emuSeq = 0
    /\ emuDisposed = FALSE
    /\ clock = 1
    /\ nWrites = 0
    /\ capSeq = 0
    /\ changes = <<>>
    /\ firesInFlight = 0
    /\ nCaptures = 0
    /\ nFires = 0
    /\ lastWriteInFlight = FALSE
    /\ flushPc = "none"
    /\ flushAwaits = <<>>
    /\ flushWrites = 0
    /\ flushInFlight = FALSE

VtWriteAny == \E data \in VtData : VtWrite(data)

----------------------------------------------------------------------------
(* ShellScene: scene/builtin/shell.ts                                      *)
(*                                                                         *)
(* A line is plain text; the prompt pattern is the default /^\$/ and the   *)
(* prefix pattern, when set, matches the line "~".                         *)

ShellTexts == {"", "out", "$ ls", "~"}

\* richTextToPlainText, on the plain lines given to the scene
richTextToPlainText(rt) == rt.text

\* `!richTextToPlainText(line).trim()`
IsBlank(rt) == richTextToPlainText(rt) = ""

\* line.match(this.pattern) and line.slice(m[0].length).trim()
MatchesPrompt(text) == text = "$ ls"
InputText(text) == "ls"
\* this.prefixPattern.test(text)
MatchesPrefix(text) == text = "~"

cursorLineIndex(snapshot) ==
    Len(snapshot.lines) - 1 - snapshot.cursor.y + OrZero(snapshot.linesOffset)

\* <<>> is undefined, else <<line>>
getLine(snapshot, index) ==
    LET relIndex == index - OrZero(snapshot.linesOffset)
    IN  IF relIndex < 0 \/ relIndex >= Len(snapshot.lines) THEN <<>>
        ELSE <<snapshot.lines[relIndex + 1]>>

\* The two loops of collectLines, on 0-based positions
RECURSIVE SkipBlankUp(_, _, _)
SkipBlankUp(lines, start, relTo) ==
    IF start < relTo /\ IsBlank(lines[start + 1])
    THEN SkipBlankUp(lines, start + 1, relTo) ELSE start

RECURSIVE SkipBlankDown(_, _, _)
SkipBlankDown(lines, start, end) ==
    IF end > start /\ IsBlank(lines[end])
    THEN SkipBlankDown(lines, start, end - 1) ELSE end

\* Array.prototype.slice(start, end): a negative index counts from the end
sliceIndex(len, i) == IF i < 0 THEN Max(len + i, 0) ELSE Min(i, len)
slice(lines, start, end) ==
    SubSeq(lines, sliceIndex(Len(lines), start) + 1, sliceIndex(Len(lines), end))

collectLines(snapshot, from, to) ==
    LET offset == OrZero(snapshot.linesOffset)
        relFrom == Max(0, from - offset)
        relTo == Min(Len(snapshot.lines), to - offset)
        start == SkipBlankUp(snapshot.lines, relFrom, relTo)
        end == SkipBlankDown(snapshot.lines, start, relTo)
    IN  slice(snapshot.lines, start, end)

\* PromptMatcher.match(snapshot): <<>> is null, else <<PromptMatch>>
match(snapshot, prefix) ==
    IF ~snapshot.cursor.visible THEN <<>>
    ELSE LET idx == cursorLineIndex(snapshot)
             cursorLine == getLine(snapshot, idx)
         IN  IF cursorLine = <<>> \/ ~MatchesPrompt(richTextToPlainText(cursorLine[1]))
             THEN <<>>
             ELSE IF prefix /\ (getLine(snapshot, idx - 1) = <<>>
                                \/ ~MatchesPrefix(richTextToPlainText(
                                                      getLine(snapshot, idx - 1)[1])))
             THEN <<>>
             ELSE << [promptStart |-> IF prefix THEN idx - 1 ELSE idx,
                      promptEnd |-> idx,
                      inputText |-> InputText(richTextToPlainText(cursorLine[1])),
                      isFirm |-> TRUE] >>

InputChanged(active, text) == [type |-> "input_changed", active |-> active, text |-> text]
BlockMessage(content) ==
    [type |-> "message_created", style |-> "block", content |-> content, echo |-> TRUE]
TextMessage(content) == [type |-> "message_created", style |-> "text", content |-> content]

IdleState(promptStart, promptEnd) ==
    [type |-> "idle", promptStart |-> promptStart, promptEnd |-> promptEnd]
RunningState(emittedUpTo) == [type |-> "running", emittedUpTo |-> emittedUpTo]

\* What a call leaves: this.shellState, the value returned (<<>> is null),
\* and the running state the idle branch entered on the way, if it did.
Outcome(state, result, entered) == [state |-> state, result |-> result, entered |-> entered]
Continuation(events, firm) == [events |-> events, firm |-> firm]
\* detect() returns the events alone
Detection(events) == [events |-> events]

\* this.idle(prompt, events)
idle(prompt, events, entered) ==
    Outcome(<<IdleState(prompt.promptStart, prompt.promptEnd)>>,
            <<Continuation(Append(events, InputChanged(TRUE, prompt.inputText)),
                           prompt.isFirm)>>,
            entered)

\* detect(snapshot)
shellDetect(snapshot, prefix, state) ==
    LET prompt == match(snapshot, prefix)
        out == idle(prompt[1], <<>>, <<>>)
    IN  IF prompt = <<>> \/ ~prompt[1].isFirm THEN Outcome(state, <<>>, <<>>)
        ELSE Outcome(out.state, <<Detection(out.result[1].events)>>, <<>>)

\* reDetect(snapshot)
reDetect(snapshot, prefix) ==
    LET prompt == match(snapshot, prefix)
    IN  IF prompt = <<>> \/ ~prompt[1].isFirm THEN Outcome(<<>>, <<>>, <<>>)
        ELSE idle(prompt[1], <<>>, <<>>)

\* `if (this.shellState.promptStart >= snapshot.linesOffset)`
BlockVisible_Always(promptStart, linesOffset) == TRUE
BlockVisible(promptStart, linesOffset) == promptStart >= linesOffset

\* The events of the idle branch when the prompt moved or disappeared
LeavingIdleEvents(snapshot, state) ==
    <<InputChanged(FALSE, "")>>
      \o (IF BlockVisible(state.promptStart, snapshot.linesOffset[1])
          THEN <<BlockMessage(collectLines(snapshot, state.promptStart,
                                           state.promptEnd + 1))>>
          ELSE <<>>)

\* `const boundary = prompt ? prompt.promptStart : snapshot.linesOffset + snapshot.lines.length`
Boundary_End(prompt, snapshot) == snapshot.linesOffset[1] + Len(snapshot.lines)
Boundary(prompt, snapshot) ==
    IF prompt # <<>> THEN prompt[1].promptStart
    ELSE snapshot.linesOffset[1] + Len(snapshot.lines)

\* continue(snapshot) from line 137 on, the state being running with
\* `emittedUpTo` and `events` collected so far
runningBranch(snapshot, prompt, emittedUpTo, events, entered) ==
    LET boundary == Boundary(prompt, snapshot)
        advanced == Max(emittedUpTo, snapshot.linesOffset[1])
        emits == advanced < boundary
        events2 == IF emits
                   THEN Append(events, TextMessage(collectLines(snapshot, advanced, boundary)))
                   ELSE events
        emittedUpTo2 == IF emits THEN boundary ELSE advanced
    IN  IF prompt # <<>> THEN idle(prompt[1], events2, entered)
        ELSE Outcome(<<RunningState(emittedUpTo2)>>, <<Continuation(events2, FALSE)>>,
                     entered)

\* `if (snapshot.alternate) return { events: [], firm: false }`
onAlternate_Reset(state) == Outcome(<<>>, <<Continuation(<<>>, FALSE)>>, <<>>)
onAlternate(state) == Outcome(state, <<Continuation(<<>>, FALSE)>>, <<>>)

\* `const requiredEnd = ...`: the least snapshotEnd that keeps tracking
requiredEnd_Zero(state) == 0
requiredEnd(state) ==
    IF state.type = "idle" THEN state.promptEnd + 1 ELSE state.emittedUpTo

\* continue(snapshot)
shellContinue(snapshot, prefix, state) ==
    IF state = <<>> THEN Outcome(state, <<>>, <<>>)
    ELSE IF snapshot.alternate THEN onAlternate(state)
    ELSE IF snapshot.linesOffset = <<>> THEN reDetect(snapshot, prefix)
    ELSE LET snapshotEnd == snapshot.linesOffset[1] + Len(snapshot.lines)
             prompt == match(snapshot, prefix)
         IN  IF snapshotEnd < requiredEnd(state[1]) THEN reDetect(snapshot, prefix)
             ELSE IF state[1].type = "idle"
             THEN IF prompt # <<>> /\ prompt[1].promptEnd = state[1].promptEnd
                  THEN idle(prompt[1], <<>>, <<>>)
                  ELSE LET running == RunningState(state[1].promptEnd + 1)
                       IN  runningBranch(snapshot, prompt, running.emittedUpTo,
                                         LeavingIdleEvents(snapshot, state[1]),
                                         <<running>>)
             ELSE runningBranch(snapshot, prompt, state[1].emittedUpTo, <<>>, <<>>)

\* The snapshots given to the scene: the main screen with a visible cursor
\* on the last line and a known offset, in every shape within the bounds;
\* the same unscrolled with the cursor one line up; and, on at most one
\* line, the alternate screen, a hidden cursor and a lost offset.
ShellLines(n) == SeqsUpTo({Plain(t) : t \in ShellTexts}, n)
ShellSnapshots ==
    {MkSnapshot(lines, Scalars(0, 0, TRUE, 80, 2, FALSE), <<off>>, 0) :
        lines \in ShellLines(MaxShellLines), off \in 0..MaxShellOffset}
    \cup
    {MkSnapshot(lines, Scalars(0, 1, TRUE, 80, 2, FALSE), <<0>>, 0) :
        lines \in ShellLines(MaxShellLines - 1)}
    \cup
    {MkSnapshot(lines, Scalars(0, 0, kind # "hidden", 80, 2, kind = "alternate"),
                IF kind = "lost" THEN <<>> ELSE <<0>>, 0) :
        lines \in ShellLines(1), kind \in {"hidden", "alternate", "lost"}}

\* The call made, for the record; `before` is the state the call read
Called(op, before, snapshot, out) ==
    <<[op |-> op, before |-> before, snapshot |-> snapshot, result |-> out.result,
       entered |-> out.entered]>>

\* scene.detect(snapshot)
ShellDetect ==
    /\ \E snapshot \in ShellSnapshots :
          LET out == shellDetect(snapshot, shPrefix, shellState)
          IN  /\ shellState' = out.state
              /\ shCall' = Called("detect", <<>>, snapshot, out)
    /\ UNCHANGED shPrefix

\* scene.continue(snapshot)
ShellContinue ==
    /\ \E snapshot \in ShellSnapshots :
          LET out == shellContinue(snapshot, shPrefix, shellState)
          IN  /\ shellState' = out.state
              /\ shCall' = Called("continue", shellState, snapshot, out)
    /\ UNCHANGED shPrefix

ShellIdle == shPrefix = FALSE /\ shellState = <<>> /\ shCall = <<>>

\* new ShellScene(config), with or without promptPrefix
ShellInit ==
    /\ shPrefix \in BOOLEAN
    /\ shellState = <<>>
    /\ shCall = <<>>

\* A run: the scene is given the snapshots of one terminal on the main
\* screen, whose linesOffset is known and never goes down.
RunSnapshots ==
    {s \in ShellSnapshots :
        /\ ~s.alternate /\ s.cursor.visible /\ s.linesOffset # <<>>
        /\ lastOffset # <<>> => s.linesOffset[1] >= lastOffset[1]}

\* An event list holds a message_created{style: text}
HasText(events) ==
    \E i \in DOMAIN events : events[i].type = "message_created" /\ events[i].style = "text"

\* The absolute range [from, to) of the text message continue(snapshot)
\* emitted: from emittedUpTo, advanced to linesOffset, up to the boundary.
TextRange(snapshot, prefix, state, out) ==
    LET emittedUpTo == IF out.entered # <<>> THEN out.entered[1].emittedUpTo
                       ELSE state[1].emittedUpTo
    IN  [from |-> Max(emittedUpTo, snapshot.linesOffset[1]),
         to |-> Boundary(match(snapshot, prefix), snapshot)]

\* continue(snapshot) dropped the tracked state: it returned null, or it
\* went through reDetect
Restarted(snapshot, state, out) ==
    \/ out.result = <<>>
    \/ snapshot.linesOffset[1] + Len(snapshot.lines) < requiredEnd(state[1])

\* scene.detect(snapshot) on the scene while it is not active
RunDetect ==
    /\ shellState = <<>>
    /\ \E snapshot \in RunSnapshots :
          /\ shellState' = shellDetect(snapshot, shPrefix, shellState).state
          /\ lastOffset' = snapshot.linesOffset
    /\ emittedRanges' = <<>>
    /\ UNCHANGED <<shPrefix, shCall>>

\* scene.continue(snapshot) on the active scene
RunContinue ==
    /\ shellState # <<>>
    /\ \E snapshot \in RunSnapshots :
          LET out == shellContinue(snapshot, shPrefix, shellState)
          IN  /\ shellState' = out.state
              /\ lastOffset' = snapshot.linesOffset
              /\ emittedRanges' =
                    IF Restarted(snapshot, shellState, out) THEN <<>>
                    ELSE IF HasText(out.result[1].events)
                    THEN Latest(emittedRanges,
                                TextRange(snapshot, shPrefix, shellState, out), 2)
                    ELSE emittedRanges
    /\ UNCHANGED <<shPrefix, shCall>>

ShellRunIdle == emittedRanges = <<>> /\ lastOffset = <<>>

----------------------------------------------------------------------------
(* CompositeScene: scene/builtin/composite.ts *)

\* Children are named by their position in the array given to the constructor.
SceneIds == 1..MaxScenes
ScenePriorities == {0, 10}

Event(type, s) == [type |-> type, scene |-> s]
Call(op, s) == [op |-> op, scene |-> s]

\* Scene.detect(snapshot): SceneEvent[] | null.  Child 1 may also answer an
\* empty event array, which is a match.
DetectAnswers(s) ==
    {<<>>, << <<Event("detect", s)>> >>} \cup (IF s = 1 THEN {<< <<>> >>} ELSE {})

\* Scene.continue(snapshot): SceneContinuation | null.
ContinueAnswers(s) ==
    { <<>>,
      <<[events |-> <<Event("continue", s)>>, firm |-> TRUE]>>,
      <<[events |-> <<Event("continue", s)>>, firm |-> FALSE]>>,
      <<[events |-> <<>>, firm |-> FALSE]>> }

DetectAnswerFns ==
    {f \in [SceneIds -> UNION {DetectAnswers(s) : s \in SceneIds}] :
        \A s \in SceneIds : f[s] \in DetectAnswers(s)}

\* [...scenes].sort((a, b) => a.priority - b.priority): a stable sort.
RECURSIVE InsertByPriority(_, _, _)
InsertByPriority(sorted, s, priority) ==
    IF sorted = <<>> THEN <<s>>
    ELSE IF priority[Head(sorted)] <= priority[s]
         THEN <<Head(sorted)>> \o InsertByPriority(Tail(sorted), s, priority)
         ELSE <<s>> \o sorted

RECURSIVE SortByPriority(_, _)
SortByPriority(n, priority) ==
    IF n = 0 THEN <<>>
    ELSE InsertByPriority(SortByPriority(n - 1, priority), n, priority)

\* detect(): for (const s of this.scenes), stopping at the first non-null.
RECURSIVE DetectScan(_, _, _)
DetectScan(order, det, k) ==
    IF k > Len(order) THEN [calls |-> <<>>, hit |-> <<>>]
    ELSE LET s == order[k] IN
         IF det[s] # <<>>
         THEN [calls |-> <<Call("detect", s)>>, hit |-> <<s>>]
         ELSE LET rest == DetectScan(order, det, k + 1) IN
              [calls |-> <<Call("detect", s)>> \o rest.calls, hit |-> rest.hit]

detect(order, active, det) ==
    LET r == DetectScan(order, det, 1) IN
    IF r.hit # <<>>
    THEN [activeScene |-> r.hit, ret |-> det[r.hit[1]], calls |-> r.calls]
    ELSE [activeScene |-> active, ret |-> <<>>, calls |-> r.calls]

\* if (s === this.activeScene) continue;
SkipsScene_Never(s, active) == FALSE
SkipsScene(s, active) == s = active[1]

\* The preemption scan of continue().
RECURSIVE PreemptionScan(_, _, _, _)
PreemptionScan(order, active, det, k) ==
    IF k > Len(order) THEN [calls |-> <<>>, hit |-> <<>>]
    ELSE LET s == order[k] IN
         IF SkipsScene(s, active) THEN PreemptionScan(order, active, det, k + 1)
         ELSE IF det[s] # <<>>
         THEN [calls |-> <<Call("detect", s)>>, hit |-> <<s>>]
         ELSE LET rest == PreemptionScan(order, active, det, k + 1) IN
              [calls |-> <<Call("detect", s)>> \o rest.calls, hit |-> rest.hit]

\* if (result === null) { this.activeScene = null; return null; }
ActiveAfterFailedContinue_Kept(active) == active
ActiveAfterFailedContinue(active) == <<>>

\* if (result.firm) return result;
IsFirm_Never(result) == FALSE
IsFirm(result) == result.firm

continue(order, active, cont, det) ==
    IF active = <<>> THEN [activeScene |-> <<>>, ret |-> <<>>, calls |-> <<>>]
    ELSE LET called == <<Call("continue", active[1])>> IN
         IF cont = <<>>
         THEN [activeScene |-> ActiveAfterFailedContinue(active), ret |-> <<>>,
               calls |-> called]
         ELSE IF IsFirm(cont[1])
         THEN [activeScene |-> active, ret |-> cont, calls |-> called]
         ELSE LET r == PreemptionScan(order, active, det, 1) IN
              IF r.hit # <<>>
              THEN [activeScene |-> r.hit,
                    ret |-> <<[events |-> det[r.hit[1]][1], firm |-> TRUE]>>,
                    calls |-> called \o r.calls]
              ELSE [activeScene |-> active, ret |-> cont, calls |-> called \o r.calls]

process(order, active, cont, det) ==
    LET continuation == continue(order, active, cont, det) IN
    IF continuation.ret # <<>> THEN continuation
    ELSE LET detected == detect(order, continuation.activeScene, det) IN
         [activeScene |-> detected.activeScene,
          ret |-> <<[events |-> IF detected.ret = <<>> THEN <<>> ELSE detected.ret[1],
                     firm |-> detected.ret # <<>>]>>,
          calls |-> continuation.calls \o detected.calls]

CompositeIdle ==
    /\ cPriority = <<>> /\ scenes = <<>> /\ activeScene = <<>> /\ cPrevActive = <<>>
    /\ cCont = <<>> /\ cDet = <<>> /\ cCalls = <<>> /\ cResult = <<>>

\* new CompositeScene(children): the children's priorities are arbitrary.
CompositeInit ==
    /\ cPriority \in [SceneIds -> ScenePriorities]
    /\ scenes = SortByPriority(MaxScenes, cPriority)
    /\ activeScene = <<>>
    /\ cPrevActive = <<>>
    /\ cCont = <<>>
    /\ cDet = [s \in SceneIds |-> <<>>]
    /\ cCalls = <<>>
    /\ cResult = <<>>

\* process(snapshot), for a snapshot the children answer with cont and det.
Process ==
    \E cont \in (IF activeScene = <<>> THEN {<<>>} ELSE ContinueAnswers(activeScene[1])),
       det \in DetectAnswerFns :
        LET r == process(scenes, activeScene, cont, det) IN
        /\ activeScene' = r.activeScene
        /\ cResult' = r.ret
        /\ cCalls' = r.calls
        /\ cPrevActive' = activeScene
        /\ cCont' = cont
        /\ cDet' = det
        /\ UNCHANGED <<cPriority, scenes>>

----------------------------------------------------------------------------
(* Gateway: gateway.ts *)

ChannelIds == 1..MaxChannels
StateLabels == {"x", "y"}

Range(f) == {f[k] : k \in DOMAIN f}

\* { type: "scene_state_changed", state }
StateChanged(state) == [type |-> "scene_state_changed", state |-> state]

\* The part of a snapshot the gateway's channels are compared on.
GwSnapshot(ts, off) == [timestamp |-> ts, linesOffset |-> off]
GwOffsets == {<<>>, <<0>>, <<1>>}

\* The lines_offset of the next snapshot the terminal hands to update():
\* null, or not below the offset of the snapshot before it.
NextOffsets(last) ==
    {o \in GwOffsets :
        o = <<>> \/ last = <<>> \/ last[1].linesOffset = <<>>
          \/ o[1] >= last[1].linesOffset[1]}

\* What the gateway's scenes answer: at most one of them detects, and the
\* active one fails, or continues firmly or tentatively.
GwDetectAnswerFns ==
    {[s \in SceneIds |-> <<>>]}
      \cup {[s \in SceneIds |-> IF s = d THEN << <<Event("detect", s)>> >> ELSE <<>>] :
               d \in Range(scenes)}
GwContinueAnswers(s) == {c \in ContinueAnswers(s) : c = <<>> \/ c[1].events # <<>>}
\* The priorities of the scenes given to replaceScenes().
GwScenePriorities == {[s \in SceneIds |-> 0]}

\* The channels whose receive() throws in one broadcast: none, or one of them.
Throwing(channels) == {{}} \cup {{c} : c \in Range(channels)}

\* The lists of channels given to replaceChannels(): channels not started
\* yet, taken in the order of their names.
NewChannelLists ==
    LET fresh == {c \in ChannelIds : chStatus[c] = "new"}
        first == CHOOSE c \in fresh : \A d \in fresh : c <= d
    IN  {<<>>} \cup (IF fresh = {} THEN {}
                    ELSE {[k \in 1..n |-> first + k - 1] :
                             n \in 1..Cardinality(fresh)})

\* this.lastSnapshot = snapshot
LastSnapshotAfterUpdate_First(snapshot) ==
    IF gLastSnapshot = <<>> THEN <<snapshot>> ELSE gLastSnapshot
LastSnapshotAfterUpdate(snapshot) == <<snapshot>>

\* if (newState !== prevState) events.push({ type: "scene_state_changed", state: newState })
StateEvents_Always(prevState, newState) == <<StateChanged(newState)>>
StateEvents(prevState, newState) ==
    IF newState # prevState THEN <<StateChanged(newState)>> ELSE <<>>

\* catch (e) { console.error(...) }: the loop goes on with the next channel.
AfterReceiveThrew_Abort(rest) == <<>>
AfterReceiveThrew(rest) == rest

\* broadcast(): the channels whose receive() is called, in order, when the
\* channels in `throwing` throw from it.
RECURSIVE ReceiveLoop(_, _)
ReceiveLoop(channels, throwing) ==
    IF channels = <<>> THEN <<>>
    ELSE <<Head(channels)>> \o
         (IF Head(channels) \in throwing
          THEN AfterReceiveThrew(ReceiveLoop(Tail(channels), throwing))
          ELSE ReceiveLoop(Tail(channels), throwing))

\* broadcast(snapshot, events).  An exception leaves the loop only by cutting
\* it short.
Broadcast(snapshot, events, throwing) ==
    LET frame == [snapshot |-> snapshot, events |-> events]
        called == ReceiveLoop(gChannels, throwing)
    IN  /\ gFrame' = <<frame>>
        /\ gTargets' = gChannels
        /\ gReceived' = called
        /\ gThrew' = throwing \cap Range(called)
        /\ gUpdateThrew' = (Len(called) < Len(gChannels))
        /\ chLast' = [c \in ChannelIds |->
                        IF c \in Range(called) THEN <<snapshot>> ELSE chLast[c]]
        /\ chPrev' = [c \in ChannelIds |->
                        IF c \in Range(called) THEN chLast[c] ELSE chPrev[c]]

broadcastVars == <<gFrame, gTargets, gReceived, gThrew, gUpdateThrew, chLast, chPrev>>
replaceChannelsVars == <<chStatus, chStopCalls, rcPc, rcOld, rcNew, rcStarted, rcOutcome>>

\* update(snapshot)
Update ==
    /\ gClock < MaxUpdates
    /\ \E off \in NextOffsets(gLastSnapshot),
          cont \in (IF activeScene = <<>> THEN {<<>>}
                    ELSE GwContinueAnswers(activeScene[1])),
          det \in (IF gComposite THEN GwDetectAnswerFns ELSE {<<>>}),
          label \in StateLabels,
          throwing \in Throwing(gChannels) :
        LET snapshot == GwSnapshot(gClock + 1, off)
            r == process(scenes, activeScene, cont, det)
            prevState == sceneState
            newState == IF r.activeScene = <<>> THEN <<>> ELSE <<label>>
            sceneEvents == r.ret[1].events
        IN  /\ gLastSnapshot' = LastSnapshotAfterUpdate(snapshot)
            /\ gClock' = gClock + 1
            /\ activeScene' = r.activeScene
            /\ sceneState' = newState
            /\ gPrevState' = prevState
            /\ gSceneEvents' = sceneEvents
            /\ Broadcast(snapshot, sceneEvents \o StateEvents(prevState, newState),
                         throwing)
    /\ gOp' = "update"
    /\ UNCHANGED <<cPriority, scenes, cPrevActive, cCont, cDet, cCalls, cResult,
                   gComposite, gChannels, replaceChannelsVars>>

\* `if (prevState !== null && this.lastSnapshot)`
NotifiesCleared_AfterUpdate(prevState, lastSnapshot) == lastSnapshot # <<>>
NotifiesCleared(prevState, lastSnapshot) == prevState # <<>> /\ lastSnapshot # <<>>

\* replaceScenes(scenes), with at most MaxGatewayScenes scenes
ReplaceScenes ==
    /\ \E priority \in GwScenePriorities, n \in 0..Min(MaxGatewayScenes, MaxScenes),
          throwing \in Throwing(gChannels) :
        /\ gComposite' = (n > 0)
        /\ IF n > 0
           THEN /\ cPriority' = priority
                /\ scenes' = SortByPriority(n, priority)
           ELSE /\ cPriority' = <<>>
                /\ scenes' = <<>>
        /\ IF NotifiesCleared(sceneState, gLastSnapshot)
           THEN Broadcast(gLastSnapshot[1], <<StateChanged(<<>>)>>, throwing)
           ELSE /\ throwing = {}
                /\ UNCHANGED broadcastVars
    /\ activeScene' = <<>>
    /\ sceneState' = <<>>
    /\ gOp' = "replaceScenes"
    /\ UNCHANGED <<cPrevActive, cCont, cDet, cCalls, cResult, gChannels, gLastSnapshot, gClock, gPrevState, gSceneEvents,
                   replaceChannelsVars>>

\* ch.stop() called on each of `targets`
StopAll(status, targets) ==
    [c \in ChannelIds |-> IF c \in Range(targets) THEN "stopped" ELSE status[c]]

\* A stopped channel receives no further frame: its history is dropped.
Forget(history, targets) ==
    [c \in ChannelIds |-> IF c \in Range(targets) THEN <<>> ELSE history[c]]

StopCalls(targets) ==
    [c \in ChannelIds |-> IF c \in Range(targets) THEN chStopCalls[c] + 1
                          ELSE chStopCalls[c]]

\* replaceChannels(channels) up to its first await: the old channels are
\* taken out of the gateway and stop() is called on each.
RcBegin ==
    /\ rcPc = "idle"
    /\ \E new \in NewChannelLists :
        rcNew' = new
    /\ rcOld' = gChannels
    /\ gChannels' = <<>>
    /\ chStatus' = StopAll(chStatus, gChannels)
    /\ chStopCalls' = StopCalls(gChannels)
    /\ chLast' = Forget(chLast, gChannels)
    /\ chPrev' = Forget(chPrev, gChannels)
    /\ rcStarted' = <<>>
    /\ rcOutcome' = "none"
    /\ rcPc' = "stopping"
    /\ gOp' = "replaceChannels"
    /\ UNCHANGED <<compVars, gComposite, sceneState, gLastSnapshot, gClock, gPrevState,
                   gSceneEvents, gFrame, gTargets, gReceived, gThrew, gUpdateThrew>>

\* The head of the start loop with `started` started so far and `status` the
\* channels' status: call start() on the next channel, or install `started`.
StartLoop(started, status) ==
    IF Len(started) = Len(rcNew)
    THEN /\ gChannels' = started
         /\ chStatus' = status
         /\ rcPc' = "idle"
         /\ rcOutcome' = "resolved"
         /\ rcOld' = <<>>
         /\ rcNew' = <<>>
         /\ rcStarted' = <<>>
    ELSE /\ chStatus' = [status EXCEPT ![rcNew[Len(started) + 1]] = "starting"]
         /\ rcPc' = "starting"
         /\ rcStarted' = started
         /\ UNCHANGED <<gChannels, rcOutcome, rcOld, rcNew>>

\* The stop() promises of the old channels have settled.
RcStopped ==
    /\ rcPc = "stopping"
    /\ StartLoop(rcStarted, chStatus)
    /\ UNCHANGED <<compVars, gComposite, sceneState, gLastSnapshot, gClock, gOp,
                   gPrevState, gSceneEvents, broadcastVars, chStopCalls>>

\* await ch.start(send) resolves
RcStartOk ==
    /\ rcPc = "starting"
    /\ LET ch == rcNew[Len(rcStarted) + 1]
           started == Append(rcStarted, ch)
       IN  StartLoop(started, [chStatus EXCEPT ![ch] = "started"])
    /\ UNCHANGED <<compVars, gComposite, sceneState, gLastSnapshot, gClock, gOp,
                   gPrevState, gSceneEvents, broadcastVars, chStopCalls>>

\* Roll back already-started channels: started.map((s) => s.stop())
RollbackTargets_None(started) == <<>>
RollbackTargets(started) == started

\* await ch.start(send) rejects: stop() is called on the started channels.
RcStartFail ==
    /\ rcPc = "starting"
    /\ LET ch == rcNew[Len(rcStarted) + 1] IN
        /\ chStatus' = StopAll([chStatus EXCEPT ![ch] = "failed"],
                               RollbackTargets(rcStarted))
        /\ chStopCalls' = StopCalls(RollbackTargets(rcStarted))
    /\ rcPc' = "rollback"
    /\ UNCHANGED <<compVars, gComposite, sceneState, gChannels, gLastSnapshot, gClock,
                   gOp, gPrevState, gSceneEvents, broadcastVars, rcOld, rcNew, rcStarted,
                   rcOutcome>>

\* The rollback's stop() promises have settled: throw e
RcRolledBack ==
    /\ rcPc = "rollback"
    /\ rcPc' = "idle"
    /\ rcOutcome' = "rejected"
    /\ rcOld' = <<>>
    /\ rcNew' = <<>>
    /\ rcStarted' = <<>>
    /\ UNCHANGED <<compVars, gComposite, sceneState, gChannels, gLastSnapshot, gClock,
                   gOp, gPrevState, gSceneEvents, broadcastVars, chStatus, chStopCalls>>

GatewayIdle ==
    /\ gComposite = FALSE /\ sceneState = <<>> /\ gChannels = <<>>
    /\ gLastSnapshot = <<>> /\ gClock = 0 /\ gOp = "none" /\ gPrevState = <<>>
    /\ gSceneEvents = <<>> /\ gFrame = <<>> /\ gTargets = <<>> /\ gReceived = <<>>
    /\ gThrew = {} /\ gUpdateThrew = FALSE /\ chStatus = <<>> /\ chStopCalls = <<>>
    /\ chLast = <<>> /\ chPrev = <<>> /\ rcPc = "off" /\ rcOld = <<>> /\ rcNew = <<>>
    /\ rcStarted = <<>> /\ rcOutcome = "none"

\* new Gateway()
GatewayInit ==
    /\ gComposite = FALSE
    /\ sceneState = <<>>
    /\ gChannels = <<>>
    /\ gLastSnapshot = <<>>
    /\ gClock = 0
    /\ gOp = "none"
    /\ gPrevState = <<>>
    /\ gSceneEvents = <<>>
    /\ gFrame = <<>>
    /\ gTargets = <<>>
    /\ gReceived = <<>>
    /\ gThrew = {}
    /\ gUpdateThrew = FALSE
    /\ chStatus = [c \in ChannelIds |-> "new"]
    /\ chStopCalls = [c \in ChannelIds |-> 0]
    /\ chLast = [c \in ChannelIds |-> <<>>]
    /\ chPrev = [c \in ChannelIds |-> <<>>]
    /\ rcPc = "idle"
    /\ rcOld = <<>>
    /\ rcNew = <<>>
    /\ rcStarted = <<>>
    /\ rcOutcome = "none"

\* The indices of the scene_state_changed events of a frame's events.
StateChangedAt(events) ==
    {k \in 1..Len(events) : events[k].type = "scene_state_changed"}

\* C11: the frame update() broadcasts contains a scene_state_changed event
\* exactly when the composite's state label after processing differs from the
\* label before; then it contains exactly one, carrying the new label, as the
\* last event, after the events the scenes produced.
C11_StateChangedIffLabelDiffers ==
    gOp = "update" =>
        LET events == gFrame[1].events
            at == StateChangedAt(events)
        IN  /\ (at # {}) <=> (sceneState # gPrevState)
            /\ at # {} =>
                /\ at = {Len(events)}
                /\ events[Len(events)] = StateChanged(sceneState)
                /\ SubSeq(events, 1, Len(events) - 1) = gSceneEvents
            /\ at = {} => events = gSceneEvents

\* An update() in which the active scene went on with events of its own while
\* its state label changed from one non-null label to another.
C11_Witness ==
    /\ gOp = "update"
    /\ gPrevState # <<>>
    /\ sceneState # <<>>
    /\ sceneState # gPrevState
    /\ gSceneEvents # <<>>
    /\ gTargets # <<>>

\* C12: when a channel's receive() throws during a broadcast, receive() is
\* still called with that frame on every other channel of the gateway, and
\* update() does not throw.
C12_ThrowingChannelIsolated ==
    gThrew # {} =>
        /\ gReceived = gTargets
        /\ \A c \in Range(gTargets) :
              chStatus[c] = "started" => chLast[c] = <<gFrame[1].snapshot>>
        /\ ~gUpdateThrew

\* The first of several channels threw from receive() during an update().
C12_Witness ==
    /\ gOp = "update"
    /\ Len(gTargets) >= 2
    /\ gThrew = {gTargets[1]}
    /\ gReceived = gTargets

\* C13: when start() of the k-th new channel fails in replaceChannels(), the
\* call rejects with every previous channel stopped, every new channel started
\* before the k-th stopped again, the k-th failed, no later channel started,
\* and the gateway's channel list empty.
C13_StartFailureRollsBack ==
    [][rcPc = "rollback" /\ rcOutcome' = "rejected" =>
          LET k == Len(rcStarted) + 1 IN
          /\ \A c \in Range(rcOld) : chStatus'[c] = "stopped"
          /\ \A j \in 1..(k - 1) : chStatus'[rcNew[j]] = "stopped"
          /\ chStatus'[rcNew[k]] = "failed"
          /\ \A j \in (k + 1)..Len(rcNew) : chStatus'[rcNew[j]] = "new"
          /\ gChannels' = <<>>]_vars

\* A replaceChannels() that replaced a running channel, started one new
\* channel, failed on the second, and has rejected.
C13_Witness ==
    /\ rcOutcome = "rejected"
    /\ rcPc = "idle"
    /\ gChannels = <<>>
    /\ \E a, b, c \in ChannelIds :
          /\ a < b /\ b < c
          /\ chStatus[a] = "stopped" /\ chStopCalls[a] = 1
          /\ chStatus[b] = "stopped" /\ chStopCalls[b] = 1
          /\ chStatus[c] = "failed" /\ chStopCalls[c] = 0

\* lines_offset does not go down from a to b, except that a null on either
\* side is a discontinuity.
OffsetMonotonic(a, b) ==
    a.linesOffset = <<>> \/ b.linesOffset = <<>> \/ a.linesOffset[1] <= b.linesOffset[1]

----------------------------------------------------------------------------
(* Emulator: scrollback tracking (emulator.ts)                             *)
(*                                                                         *)
(* The xterm terminal is modelled by what the tracking depends on: the     *)
(* number of scrollback lines of the normal buffer, which a scrolling line *)
(* feed grows up to the `scrollback` option and then trims at the front,   *)
(* one line per line feed, moving every marker of the buffer up by one and *)
(* disposing a marker that leaves the buffer; the alternate buffer has no  *)
(* scrollback and its output leaves the normal buffer as it is.            *)

Views == {"a", "b"}
TermCols == {80}

NoMarker == [state |-> "none", line |-> 0]
LiveMarker(line) == [state |-> "live", line |-> line]
DisposedMarker == [state |-> "disposed", line |-> 0]

\* xterm's Marker on a trim of `amount` lines: line -= amount, and below 0
\* the marker disposes itself.
MarkerAfterTrim(marker, amount) ==
    IF marker.state # "live" THEN marker
    ELSE IF marker.line - amount < 0 THEN DisposedMarker
    ELSE LiveMarker(marker.line - amount)

\* buffer.baseY of the active buffer
BaseY == IF termAlt THEN 0 ELSE termBaseY

\* `this.cumulativeTrimCount = 0` after a disposed marker was found
CountAfterMarkerLoss_Kept(count) == count
CountAfterMarkerLoss(count) == <<0>>

\* resolveScrollback(baseY, cols): the number of cached lines reused, the
\* linesOffset reported, and cumulativeTrimCount afterwards.
resolveScrollback(baseY, cols) ==
    IF cumulativeTrimCount = <<>>
    THEN [cached |-> 0, linesOffset |-> <<>>, count |-> <<0>>]
    ELSE IF scrollbackCacheLength = 0 \/ baseY = 0
    THEN [cached |-> 0, linesOffset |-> cumulativeTrimCount, count |-> cumulativeTrimCount]
    ELSE IF cols # scrollbackCacheCols \/ baseY < scrollbackCacheLength
    THEN [cached |-> 0, linesOffset |-> cumulativeTrimCount, count |-> cumulativeTrimCount]
    ELSE IF scrollbackCacheMarker.state # "live"
    THEN [cached |-> 0, linesOffset |-> <<>>,
          count |-> CountAfterMarkerLoss(cumulativeTrimCount)]
    ELSE LET originalLine == scrollbackCacheLength - 1
             trimCount == originalLine - scrollbackCacheMarker.line
         IN  IF trimCount > 0
             THEN [cached |-> Min(baseY, scrollbackCacheLength - trimCount),
                   linesOffset |-> <<cumulativeTrimCount[1] + trimCount>>,
                   count |-> <<cumulativeTrimCount[1] + trimCount>>]
             ELSE [cached |-> Min(baseY, scrollbackCacheLength),
                   linesOffset |-> cumulativeTrimCount,
                   count |-> cumulativeTrimCount]

\* commitScrollback(scrollbackLines, cols, baseY): the cache and the marker
\* afterwards.
commitScrollback(cols, baseY) ==
    [length |-> baseY, cols |-> cols,
     marker |-> IF baseY = 0 THEN NoMarker ELSE LiveMarker(baseY - 1)]

\* `if (alternate)` in takeSnapshot()
TakesAlternateBranch_Never(alternate) == FALSE
TakesAlternateBranch(alternate) == alternate

\* takeSnapshot(): the snapshot and the emulator's tracking state afterwards.
trackedSnapshot ==
    LET baseY == BaseY
        alternate == termAlt
        resolved == IF TakesAlternateBranch(alternate)
                    THEN [cached |-> 0, linesOffset |-> cumulativeTrimCount,
                          count |-> cumulativeTrimCount]
                    ELSE resolveScrollback(baseY, termCols)
        committed == IF TakesAlternateBranch(alternate)
                     THEN [length |-> scrollbackCacheLength, cols |-> scrollbackCacheCols,
                           marker |-> scrollbackCacheMarker]
                     ELSE commitScrollback(termCols, baseY)
    IN  [snapshot |-> MkSnapshot([k \in 1..(baseY + 1) |-> Plain(termView)],
                                 Scalars(0, 0, TRUE, termCols, 24, alternate),
                                 resolved.linesOffset, 0),
         scrollbackLines |-> baseY,
         count |-> resolved.count,
         cache |-> committed]

terminalVars == <<termScrollback, termCols, termAlt, termBaseY, termTrimmed>>
trackingVars == <<scrollbackCacheLength, scrollbackCacheCols, scrollbackCacheMarker,
                  cumulativeTrimCount>>
\* What the virtual terminal adds to the emulator, and what it hands on.
captureVars == <<termView, pendingChange, lastCaptured, emittedOffsets>>
\* The record of the emulator's takeSnapshot() calls.
shotVars == <<normalShots, lastShot, sinceResize, resizedSinceNormal>>

\* What one takeSnapshot() call, with outcome `shot`, leaves in the emulator.
Shoot(shot) ==
    /\ cumulativeTrimCount' = shot.count
    /\ scrollbackCacheLength' = shot.cache.length
    /\ scrollbackCacheCols' = shot.cache.cols
    /\ scrollbackCacheMarker' = shot.cache.marker
    /\ UNCHANGED terminalVars

\* Emulator.takeSnapshot(), with the call put on record.
EmulatorTakeSnapshot ==
    LET shot == trackedSnapshot IN
    /\ Shoot(shot)
    /\ lastShot' = <<[alternate |-> termAlt,
                      linesOffset |-> shot.snapshot.linesOffset,
                      scrollbackLines |-> shot.scrollbackLines,
                      lost |-> scrollbackCacheMarker.state = "disposed",
                      resized |-> resizedSinceNormal,
                      kept |-> /\ shot.count = cumulativeTrimCount
                               /\ shot.cache.length = scrollbackCacheLength
                               /\ shot.cache.cols = scrollbackCacheCols
                               /\ shot.cache.marker = scrollbackCacheMarker]>>
    /\ IF termAlt
       THEN UNCHANGED <<normalShots, resizedSinceNormal>>
       ELSE /\ normalShots' = Latest(normalShots,
                                     [linesOffset |-> shot.snapshot.linesOffset,
                                      trimmed |-> termTrimmed,
                                      lost |-> scrollbackCacheMarker.state = "disposed",
                                      resized |-> resizedSinceNormal], 2)
            /\ resizedSinceNormal' = FALSE
    /\ sinceResize' =
          IF sinceResize = <<>> \/ Len(sinceResize[1]) >= 2 THEN sinceResize
          ELSE <<Append(sinceResize[1], [alternate |-> termAlt,
                                         linesOffset |-> shot.snapshot.linesOffset])>>
    /\ UNCHANGED captureVars

\* A line feed on the last row: the screen scrolls by one line.
Scroll ==
    /\ IF termAlt
       THEN UNCHANGED <<termBaseY, termTrimmed, scrollbackCacheMarker>>
       ELSE IF termBaseY < termScrollback
       THEN /\ termBaseY' = termBaseY + 1
            /\ UNCHANGED <<termTrimmed, scrollbackCacheMarker>>
       ELSE /\ termTrimmed < MaxTrimmed
            /\ termTrimmed' = termTrimmed + 1
            /\ scrollbackCacheMarker' = MarkerAfterTrim(scrollbackCacheMarker, 1)
            /\ UNCHANGED termBaseY
    /\ UNCHANGED <<termScrollback, termCols, termAlt, scrollbackCacheLength,
                   scrollbackCacheCols, cumulativeTrimCount>>

\* DECSET 1049 / DECRST 1049: the other buffer becomes the active one.
SwitchBuffer(alternate) ==
    /\ termAlt # alternate
    /\ termAlt' = alternate
    /\ UNCHANGED <<termScrollback, termCols, termBaseY, termTrimmed, trackingVars>>

\* Emulator.resize(cols, rows): xterm rebuilds the buffer, with any number
\* of scrollback lines afterwards.
EmulatorResize ==
    /\ \E cols \in TermCols :
        /\ termCols' = cols
        /\ scrollbackCacheCols' = cols
    /\ \E baseY \in 0..termScrollback : termBaseY' = baseY
    /\ cumulativeTrimCount' = <<>>
    /\ scrollbackCacheLength' = 0
    /\ scrollbackCacheMarker' = NoMarker
    /\ UNCHANGED <<termScrollback, termAlt, termTrimmed>>

\* Emulator.write() of a scrolling line feed, processed
EmuWriteLine == Scroll /\ UNCHANGED <<captureVars, shotVars>>

\* Emulator.write() of DECSET 1049, processed
EnterAlternate == SwitchBuffer(TRUE) /\ UNCHANGED <<captureVars, shotVars>>

\* Emulator.write() of DECRST 1049, processed
ExitAlternate == SwitchBuffer(FALSE) /\ UNCHANGED <<captureVars, shotVars>>

\* Emulator.resize(cols, rows), put on record
Resize ==
    /\ EmulatorResize
    /\ sinceResize' = << <<>> >>
    /\ resizedSinceNormal' = TRUE
    /\ UNCHANGED <<captureVars, normalShots, lastShot>>

\* VirtualTerminal.write(data): the emulator processes a scrolling line feed,
\* a buffer switch or plain text, and the scheduler is notified.
TermWrite ==
    /\ \/ Scroll /\ termView' \in Views
       \/ SwitchBuffer(~termAlt) /\ termView' \in Views
       \/ termView' \in Views \ {termView} /\ UNCHANGED <<terminalVars, trackingVars>>
    /\ pendingChange' = TRUE
    /\ UNCHANGED <<lastCaptured, emittedOffsets, shotVars>>

\* VirtualTerminal.resize(cols, rows): no notification
TermResize == EmulatorResize /\ UNCHANGED <<captureVars, shotVars>>

\* VirtualTerminal.takeSnapshot(): a snapshot taken outside the capture loop.
TakeSnapshot ==
    /\ Shoot(trackedSnapshot)
    /\ UNCHANGED <<captureVars, shotVars>>

\* One round of runCapture's loop once the emulator has flushed: the
\* snapshot is handed to onChange unless it equals the previous one.
Capture ==
    /\ pendingChange
    /\ pendingChange' = FALSE
    /\ LET shot == trackedSnapshot IN
        /\ Shoot(shot)
        /\ lastCaptured' = <<shot.snapshot>>
        /\ emittedOffsets' =
              IF IsDuplicate(lastCaptured, shot.snapshot) THEN emittedOffsets
              ELSE Latest(emittedOffsets, shot.snapshot.linesOffset, 2)
    /\ UNCHANGED <<termView, shotVars>>

ScrollbackIdle ==
    /\ termScrollback = 0 /\ termCols = 0 /\ termAlt = FALSE /\ termBaseY = 0
    /\ termView = "" /\ termTrimmed = 0 /\ scrollbackCacheLength = 0
    /\ scrollbackCacheCols = 0 /\ scrollbackCacheMarker = NoMarker
    /\ cumulativeTrimCount = <<>> /\ pendingChange = FALSE /\ lastCaptured = <<>>
    /\ emittedOffsets = <<>> /\ normalShots = <<>> /\ lastShot = <<>>
    /\ sinceResize = <<>> /\ resizedSinceNormal = FALSE

\* new Emulator({ cols, rows, scrollback }) on an empty screen
ScrollbackInit ==
    /\ termScrollback \in 1..MaxScrollback
    /\ termCols = 80
    /\ termAlt = FALSE
    /\ termBaseY = 0
    /\ termView = "a"
    /\ termTrimmed = 0
    /\ scrollbackCacheLength = 0
    /\ scrollbackCacheCols = termCols
    /\ scrollbackCacheMarker = NoMarker
    /\ cumulativeTrimCount = <<0>>
    /\ pendingChange = FALSE
    /\ lastCaptured = <<>>
    /\ emittedOffsets = <<>>
    /\ normalShots = <<>>
    /\ lastShot = <<>>
    /\ sinceResize = <<>>
    /\ resizedSinceNormal = FALSE

----------------------------------------------------------------------------
(* FlushScheduler on a clock                                               *)
(*                                                                         *)
(* A timer set by setTimeout(f, ms) is the time at which it is due; the    *)
(* event loop runs a due timer before the clock moves past it.             *)

DEFAULT_DEBOUNCE_MS == 100
DEFAULT_MAX_INTERVAL_MS == 300

\* The times between two events, in ms.
Gaps == {40, 90}

\* The earliest time at which a timer is due; `limit` when none is set.
EarliestDue(limit) ==
    LET dues == {limit} \cup Range(fsDebounceDue) \cup Range(fsIntervalDue)
    IN  CHOOSE t \in dues : \A u \in dues : t <= u

\* `if (this.intervalTimer === null) this.intervalTimer = setTimeout(..., maxIntervalMs)`
IntervalAfterNotify_Restarted(timer, now) == <<now + DEFAULT_MAX_INTERVAL_MS>>
IntervalAfterNotify(timer, now) ==
    IF timer = <<>> THEN <<now + DEFAULT_MAX_INTERVAL_MS>> ELSE timer

\* Time passes, up to the next due timer.
SchedAdvance ==
    /\ fsNow < MaxNow
    /\ fsNow < EarliestDue(MaxNow)
    /\ \E gap \in Gaps : fsNow' = Min(fsNow + gap, EarliestDue(MaxNow))
    /\ UNCHANGED <<fsDebounceDue, fsIntervalDue, fsDisposed, fsCycleStart,
                   fsCycleNotifies, fsCycleFires, fsLastFire>>

\* notify()
SchedNotify ==
    /\ IF fsDisposed
       THEN UNCHANGED <<fsDebounceDue, fsIntervalDue, fsCycleStart, fsCycleNotifies,
                        fsCycleFires>>
       ELSE /\ fsDebounceDue' = <<fsNow + DEFAULT_DEBOUNCE_MS>>
            /\ fsIntervalDue' = IntervalAfterNotify(fsIntervalDue, fsNow)
            /\ fsCycleStart' = IF fsCycleStart = <<>> THEN <<fsNow>> ELSE fsCycleStart
            /\ fsCycleNotifies' = Min(fsCycleNotifies + 1, 5)
            /\ fsCycleFires' = IF fsCycleStart = <<>> THEN 0 ELSE fsCycleFires
    /\ UNCHANGED <<fsNow, fsDisposed, fsLastFire>>

\* clearTimers()
clearTimers_DebounceOnly ==
    /\ fsDebounceDue' = <<>>
    /\ fsIntervalDue' = fsIntervalDue
clearTimers ==
    /\ fsDebounceDue' = <<>>
    /\ fsIntervalDue' = <<>>

\* fireCallbacks() for `cause`: both timers are cleared and onFlush() is called.
SchedFire(cause) ==
    /\ clearTimers
    /\ fsLastFire' = <<[cause |-> cause,
                        latency |-> fsNow - OrBase(fsCycleStart, fsNow),
                        notifies |-> fsCycleNotifies]>>
    /\ fsCycleStart' = <<>>
    /\ fsCycleNotifies' = 0
    /\ fsCycleFires' = Min(fsCycleFires + 1, 2)
    /\ UNCHANGED <<fsNow, fsDisposed>>

\* The debounce timer's callback runs.
SchedDebounceFire ==
    /\ fsDebounceDue # <<>>
    /\ fsDebounceDue[1] <= fsNow
    /\ SchedFire("debounce")

\* The interval timer's callback runs.
SchedIntervalFire ==
    /\ fsIntervalDue # <<>>
    /\ fsIntervalDue[1] <= fsNow
    /\ SchedFire("interval")

\* flush()
SchedFlush ==
    IF fsDebounceDue # <<>> \/ fsIntervalDue # <<>>
    THEN SchedFire("flush")
    ELSE UNCHANGED fsVars

\* dispose()
SchedDispose ==
    /\ ~fsDisposed
    /\ fsDisposed' = TRUE
    /\ clearTimers
    /\ fsCycleStart' = <<>>
    /\ fsCycleNotifies' = 0
    /\ UNCHANGED <<fsNow, fsCycleFires, fsLastFire>>

SchedulerIdle ==
    /\ fsNow = 0 /\ fsDebounceDue = <<>> /\ fsIntervalDue = <<>> /\ fsDisposed = TRUE
    /\ fsCycleStart = <<>> /\ fsCycleNotifies = 0 /\ fsCycleFires = 0 /\ fsLastFire = <<>>

\* new FlushScheduler({ onFlush })
SchedulerInit ==
    /\ fsNow = 0
    /\ fsDebounceDue = <<>>
    /\ fsIntervalDue = <<>>
    /\ fsDisposed = FALSE
    /\ fsCycleStart = <<>>
    /\ fsCycleNotifies = 0
    /\ fsCycleFires = 0
    /\ fsLastFire = <<>>

----------------------------------------------------------------------------
(* Channels: channel/dump.ts, channel/web.ts                               *)
(*                                                                         *)
(* A call runs to its end before the next one begins.  Bun.serve may       *)
(* throw (the port is taken); a client may come, go, or be too slow.       *)

ChannelNames == {"dump", "web"}

\* The state of the two channels, for comparison
ChannelState(name) ==
    IF name = "dump" THEN <<dcWriter>>
    ELSE <<wcServer, wcClients, wcSend, wcResolve>>

\* What a call leaves for the record
ChannelCall(name, op, threw) ==
    <<[channel |-> name, op |-> op, threw |-> threw, before |-> ChannelState(name),
       stoppedBefore |-> chnStopped[name]]>>

\* DumpWriter.end(): throws when `this.writer` is null, else closes it
WriterEndThrows(writer) == writer = "closed"

\* DumpChannel.start(): this.writer = new DumpWriter(...)
DumpStart ==
    /\ dcWriter' = "open"
    /\ chnStopped' = [chnStopped EXCEPT !["dump"] = FALSE]
    /\ chnCall' = ChannelCall("dump", "start", FALSE)
    /\ UNCHANGED <<wcWaitForClient, wcServer, wcClients, wcSend, wcResolve>>

\* DumpChannel.stop(): await this.writer?.end()
DumpStop ==
    /\ IF dcWriter = "null"
       THEN /\ chnCall' = ChannelCall("dump", "stop", FALSE)
            /\ chnStopped' = [chnStopped EXCEPT !["dump"] = TRUE]
            /\ UNCHANGED dcWriter
       ELSE IF WriterEndThrows(dcWriter)
       THEN /\ chnCall' = ChannelCall("dump", "stop", TRUE)
            /\ UNCHANGED <<dcWriter, chnStopped>>
       ELSE /\ dcWriter' = "closed"
            /\ chnCall' = ChannelCall("dump", "stop", FALSE)
            /\ chnStopped' = [chnStopped EXCEPT !["dump"] = TRUE]
    /\ UNCHANGED <<wcWaitForClient, wcServer, wcClients, wcSend, wcResolve>>

\* DumpChannel.receive(frame): this.writer?.write(frame.snapshot), which
\* throws on a closed writer
DumpReceive ==
    /\ chnCall' = ChannelCall("dump", "receive", dcWriter = "closed")
    /\ UNCHANGED <<dcWriter, wcWaitForClient, wcServer, wcClients, wcSend, wcResolve,
                   chnStopped>>

\* WebChannel.start(send)
WebStart ==
    /\ IF wcServer
       THEN /\ chnCall' = ChannelCall("web", "start", TRUE)
            /\ UNCHANGED <<wcServer, wcSend, wcResolve>>
       ELSE \E served \in BOOLEAN :
              /\ wcSend' = TRUE
              /\ wcResolve' = wcWaitForClient
              /\ wcServer' = served
              /\ chnCall' = ChannelCall("web", "start", ~served)
    /\ chnStopped' = [chnStopped EXCEPT !["web"] = FALSE]
    /\ UNCHANGED <<dcWriter, wcWaitForClient, wcClients>>

\* WebChannel.stop()
WebStop ==
    /\ wcResolve' = FALSE
    /\ wcClients' = 0
    /\ wcServer' = FALSE
    /\ wcSend' = FALSE
    /\ chnCall' = ChannelCall("web", "stop", FALSE)
    /\ chnStopped' = [chnStopped EXCEPT !["web"] = TRUE]
    /\ UNCHANGED <<dcWriter, wcWaitForClient>>

\* websocket.open(ws)
WebClientOpen ==
    /\ wcServer
    /\ wcClients < MaxClients
    /\ wcClients' = wcClients + 1
    /\ wcResolve' = FALSE
    /\ UNCHANGED <<dcWriter, wcWaitForClient, wcServer, wcSend, chnStopped, chnCall>>

\* websocket.close(ws)
WebClientClose ==
    /\ wcClients > 0
    /\ wcClients' = wcClients - 1
    /\ UNCHANGED <<dcWriter, wcWaitForClient, wcServer, wcSend, wcResolve, chnStopped,
                   chnCall>>

\* WebChannel.receive(frame): `slow` of the clients are dropped
WebReceive ==
    /\ \E slow \in 0..wcClients : wcClients' = wcClients - slow
    /\ chnCall' = ChannelCall("web", "receive", FALSE)
    /\ UNCHANGED <<dcWriter, wcWaitForClient, wcServer, wcSend, wcResolve, chnStopped>>

ChannelsIdle ==
    /\ dcWriter = "null" /\ wcWaitForClient = FALSE /\ wcServer = FALSE /\ wcClients = 0
    /\ wcSend = FALSE /\ wcResolve = FALSE /\ chnStopped = <<>> /\ chnCall = <<>>

\* new DumpChannel(options), new WebChannel(options)
ChannelsInit ==
    /\ dcWriter = "null"
    /\ wcWaitForClient \in BOOLEAN
    /\ wcServer = FALSE
    /\ wcClients = 0
    /\ wcSend = FALSE
    /\ wcResolve = FALSE
    /\ chnStopped = [name \in ChannelNames |-> FALSE]
    /\ chnCall = <<>>

----------------------------------------------------------------------------
(* Structured input: parseSceneInput (scene/interface.ts), Gateway.send    *)
(*                                                                         *)
(* A string is the sequence of its character codes.                        *)

\* One code from every class of the pattern and next to each of its edges
InputChars == {0, 8, 9, 10, 11, 12, 13, 14, 27, 31, 32, 126, 127}
InputStrings == SeqsUpTo(InputChars, MaxContentLen)

\* The character class /[\x00-\x08\x0b\x0c\x0e-\x1f\x7f]/
Stripped(c) == c \in 0..8 \/ c = 11 \/ c = 12 \/ c \in 14..31 \/ c = 127

\* s.replace(pattern, "")
RECURSIVE stripControlChars(_)
stripControlChars(str) ==
    IF str = <<>> THEN <<>>
    ELSE (IF Stripped(Head(str)) THEN <<>> ELSE <<Head(str)>>)
           \o stripControlChars(Tail(str))

\* The values a channel hands to parseSceneInput, JSON already parsed
InputValues ==
    {[type |-> "text", content |-> str] : str \in InputStrings}
      \cup {[type |-> "select", index |-> i] : i \in {-1, 0, 1}}
      \cup {[type |-> "other"]}

\* v.safeParse(SceneInputSchema, value): <<>> is null
parseSceneInput(value) ==
    IF value.type = "text"
    THEN <<[type |-> "text", content |-> stripControlChars(value.content)]>>
    ELSE IF value.type = "select" /\ value.index >= 0 THEN <<value>>
    ELSE <<>>

CR == 13

\* A channel got a message and parsed it
InputParse ==
    /\ \E value \in InputValues : siParsed' = parseSceneInput(value)
    /\ siWritten' = <<>>
    /\ UNCHANGED siHasWrite

\* Gateway.send(input), no scene encoding the input:
\* this.write(`${input.content}\r`) for a text input
InputSend ==
    /\ siParsed # <<>>
    /\ siWritten' = IF siHasWrite /\ siParsed[1].type = "text"
                    THEN Append(siWritten, Append(siParsed[1].content, CR))
                    ELSE siWritten
    /\ siParsed' = <<>>
    /\ UNCHANGED siHasWrite

InputIdle == siHasWrite = FALSE /\ siParsed = <<>> /\ siWritten = <<>>

\* new Gateway({ write }) or new Gateway()
InputInit ==
    /\ siHasWrite \in BOOLEAN
    /\ siParsed = <<>>
    /\ siWritten = <<>>

----------------------------------------------------------------------------
(* Gateway.replaceChannels, calls overlapping; Attacher (attacher.ts)       *)
(*                                                                         *)
(* Each call of replaceChannels() has its own `started` and its own place  *)
(* in the code; this.channels is shared.  In the Attacher one call is the  *)
(* one apply() makes, the other the one stop() makes.                      *)

CallIds == {"apply", "stop"}
ApplyCall == "apply"
StopCall == "stop"

\* The lists of channels given to replaceChannels(): channels not started
\* yet, taken in the order of their names.
FreshChannelLists ==
    LET fresh == {c \in ChannelIds : ccStatus[c] = "new"}
        first == CHOOSE c \in fresh : \A d \in fresh : c <= d
    IN  {<<>>} \cup (IF fresh = {} THEN {}
                    ELSE {[k \in 1..n |-> first + k - 1] :
                             n \in 1..Cardinality(fresh)})

InFlight(call) == ccPc[call] \in {"stopping", "starting", "rollback"}

\* replaceChannels(channels) up to its first await:
\* const old = this.channels; this.channels = []; old.map((ch) => ch.stop())
CcBegin(call, channels) ==
    /\ ccChannels' = <<>>
    /\ ccStatus' = StopAll(ccStatus, ccChannels)
    /\ ccNew' = [ccNew EXCEPT ![call] = channels]
    /\ ccStarted' = [ccStarted EXCEPT ![call] = <<>>]
    /\ ccPc' = [ccPc EXCEPT ![call] = "stopping"]

\* The head of the start loop of a call: start the next channel, or
\* `this.channels = started`
CcStartLoop(call, started, status) ==
    IF Len(started) = Len(ccNew[call])
    THEN /\ ccChannels' = started
         /\ ccStatus' = status
         /\ ccPc' = [ccPc EXCEPT ![call] = "resolved"]
         /\ ccStarted' = [ccStarted EXCEPT ![call] = started]
    ELSE /\ ccStatus' = [status EXCEPT ![ccNew[call][Len(started) + 1]] = "starting"]
         /\ ccPc' = [ccPc EXCEPT ![call] = "starting"]
         /\ ccStarted' = [ccStarted EXCEPT ![call] = started]
         /\ UNCHANGED ccChannels

attacherOnly == <<atPhase, atApply, atReloading, atConfig, atWatchers, atStop>>

\* The stop() promises of the old channels have settled.
CcStopped(call) ==
    /\ ccPc[call] = "stopping"
    /\ CcStartLoop(call, ccStarted[call], ccStatus)
    /\ UNCHANGED <<ccNew, attacherOnly>>

\* await ch.start(send) resolves
CcStartOk(call) ==
    /\ ccPc[call] = "starting"
    /\ LET ch == ccNew[call][Len(ccStarted[call]) + 1]
       IN  CcStartLoop(call, Append(ccStarted[call], ch),
                       [ccStatus EXCEPT ![ch] = "started"])
    /\ UNCHANGED <<ccNew, attacherOnly>>

\* await ch.start(send) rejects: stop() is called on the started channels.
CcStartFail(call) ==
    /\ ccPc[call] = "starting"
    /\ LET ch == ccNew[call][Len(ccStarted[call]) + 1]
       IN  ccStatus' = StopAll([ccStatus EXCEPT ![ch] = "failed"],
                               RollbackTargets(ccStarted[call]))
    /\ ccPc' = [ccPc EXCEPT ![call] = "rollback"]
    /\ UNCHANGED <<ccChannels, ccNew, ccStarted, attacherOnly>>

\* The rollback's stop() promises have settled: throw e
CcRolledBack(call) ==
    /\ ccPc[call] = "rollback"
    /\ ccPc' = [ccPc EXCEPT ![call] = "rejected"]
    /\ UNCHANGED <<ccChannels, ccStatus, ccNew, ccStarted, attacherOnly>>

\* gateway.replaceChannels(channels), called while another call may be in
\* flight
CcCall(call) ==
    /\ ~InFlight(call)
    /\ \E channels \in FreshChannelLists : CcBegin(call, channels)
    /\ UNCHANGED attacherOnly

\* The paths apply() hands to fileWatch.update(): the config file, if the
\* config has a path, and the scene files
WatchPaths == {"config", "scene"}
WatchTargets == SUBSET WatchPaths

\* attacher.start(): apply(this.options.config) begins
AtStart ==
    /\ atPhase = "new"
    /\ atApply = "none"
    /\ atStop = "none"
    /\ atPhase' = "starting"
    /\ atApply' = "loading"
    /\ UNCHANGED <<ccChannels, ccStatus, ccPc, ccNew, ccStarted, atReloading, atConfig,
                   atWatchers, atStop>>

\* A watched file changed: reload()
AtFileChanged ==
    /\ atWatchers # {}
    /\ IF atReloading THEN UNCHANGED <<atReloading, atApply>>
       ELSE /\ atReloading' = TRUE
            /\ atApply' = "loading"
    /\ UNCHANGED <<ccChannels, ccStatus, ccPc, ccNew, ccStarted, atPhase, atConfig,
                   atWatchers, atStop>>

\* How apply() ends, having thrown or not
ApplyEnds(threw) ==
    /\ atApply' = "none"
    /\ IF atReloading THEN atReloading' = FALSE /\ UNCHANGED atPhase
       ELSE /\ atPhase' = IF threw THEN "failed" ELSE "started"
            /\ UNCHANGED atReloading

\* `this.fileWatch.update(fileWatchTargets); this.config = newConfig`
ApplyFinish(targets) ==
    /\ atWatchers' = targets
    /\ atConfig' = TRUE
    /\ ApplyEnds(FALSE)

\* config.reload(), resolveSceneEntries, loadScenes fail: apply() throws
AtLoadFails ==
    /\ atApply = "loading"
    /\ ApplyEnds(TRUE)
    /\ UNCHANGED <<ccChannels, ccStatus, ccPc, ccNew, ccStarted, atConfig, atWatchers,
                   atStop>>

\* The config and the scenes are loaded; the channel configuration differs
\* (as it does the first time): replaceChannels(newChannels)
AtReplaceChannels ==
    /\ atApply = "loading"
    /\ \E channels \in FreshChannelLists : CcBegin(ApplyCall, channels)
    /\ atApply' = "channels"
    /\ UNCHANGED <<atPhase, atReloading, atConfig, atWatchers, atStop>>

\* The config and the scenes are loaded; the channel configuration is the same
AtKeepChannels ==
    /\ atApply = "loading"
    /\ atConfig
    /\ \E targets \in WatchTargets : ApplyFinish(targets)
    /\ UNCHANGED <<ccChannels, ccStatus, ccPc, ccNew, ccStarted, atStop>>

\* replaceChannels(newChannels) resolved
AtChannelsReplaced ==
    /\ atApply = "channels"
    /\ ccPc[ApplyCall] = "resolved"
    /\ ccPc' = [ccPc EXCEPT ![ApplyCall] = "idle"]
    /\ \E targets \in WatchTargets : ApplyFinish(targets)
    /\ UNCHANGED <<ccChannels, ccStatus, ccNew, ccStarted, atStop>>

\* replaceChannels(newChannels) rejected: apply() throws
AtChannelsFailed ==
    /\ atApply = "channels"
    /\ ccPc[ApplyCall] = "rejected"
    /\ ccPc' = [ccPc EXCEPT ![ApplyCall] = "idle"]
    /\ ApplyEnds(TRUE)
    /\ UNCHANGED <<ccChannels, ccStatus, ccNew, ccStarted, atConfig, atWatchers, atStop>>

\* attacher.stop(): this.fileWatch.close(); gateway.replaceChannels([])
AtStop ==
    /\ atPhase = "started"
    /\ atStop = "none"
    /\ atWatchers' = {}
    /\ CcBegin(StopCall, <<>>)
    /\ atStop' = "channels"
    /\ UNCHANGED <<atPhase, atApply, atReloading, atConfig>>

\* stop(): replaceChannels([]) resolved
AtStopped ==
    /\ atStop = "channels"
    /\ ccPc[StopCall] = "resolved"
    /\ atStop' = "done"
    /\ UNCHANGED <<ccChannels, ccStatus, ccPc, ccNew, ccStarted, atPhase, atApply,
                   atReloading, atConfig, atWatchers>>

AttacherIdle ==
    /\ ccChannels = <<>> /\ ccStatus = <<>> /\ ccPc = <<>> /\ ccNew = <<>> /\ ccStarted = <<>>
    /\ atPhase = "off" /\ atApply = "none" /\ atReloading = FALSE /\ atConfig = FALSE
    /\ atWatchers = {} /\ atStop = "none"

\* new Gateway(); new Attacher(gateway, options) if `attached`
CallsInit(attached) ==
    /\ ccChannels = <<>>
    /\ ccStatus = [c \in ChannelIds |-> "new"]
    /\ ccPc = [call \in CallIds |-> "idle"]
    /\ ccNew = [call \in CallIds |-> <<>>]
    /\ ccStarted = [call \in CallIds |-> <<>>]
    /\ atPhase = IF attached THEN "new" ELSE "off"
    /\ atApply = "none"
    /\ atReloading = FALSE
    /\ atConfig = FALSE
    /\ atWatchers = {}
    /\ atStop = "none"

----------------------------------------------------------------------------
(* Specifications, one per component *)

InitCodec == CodecInit /\ DumpIdle /\ VtIdle /\ CompositeIdle /\ GatewayIdle /\ ScrollbackIdle /\ SchedulerIdle /\ ShellIdle /\ ChannelsIdle /\ InputIdle /\ AttacherIdle /\ ShellRunIdle
NextCodec ==
    \/ Diff /\ UNCHANGED exceptCodec
    \/ Apply /\ UNCHANGED exceptCodec
SpecCodec == InitCodec /\ [][NextCodec]_vars

InitDump == DumpInit /\ CodecIdle /\ VtIdle /\ CompositeIdle /\ GatewayIdle /\ ScrollbackIdle /\ SchedulerIdle /\ ShellIdle /\ ChannelsIdle /\ InputIdle /\ AttacherIdle /\ ShellRunIdle
NextDump ==
    \/ Write /\ UNCHANGED exceptDump
    \/ WriterEnd /\ UNCHANGED exceptDump
    \/ ReaderOpen /\ UNCHANGED exceptDump
    \/ ReaderSnapshots /\ UNCHANGED exceptDump
SpecDump == InitDump /\ [][NextDump]_vars

InitReader ==
    /\ DumpInit
    /\ CodecIdle /\ VtIdle /\ CompositeIdle /\ GatewayIdle /\ ScrollbackIdle /\ SchedulerIdle
    /\ ShellIdle
    /\ ChannelsIdle
    /\ InputIdle
    /\ AttacherIdle
    /\ ShellRunIdle
NextReader ==
    \/ FixtureWrite /\ UNCHANGED exceptReader
    \/ ForeignWrite /\ UNCHANGED exceptReader
    \/ FixtureEnd /\ UNCHANGED exceptReader
    \/ FixtureOpen /\ UNCHANGED exceptReader
    \/ ReaderNearest /\ UNCHANGED exceptReader
    \/ ReaderSnapshotsFrom /\ UNCHANGED exceptReader
SpecReader == InitReader /\ [][NextReader]_vars

InitVt == VtInit /\ CodecIdle /\ DumpIdle /\ CompositeIdle /\ GatewayIdle /\ ScrollbackIdle /\ SchedulerIdle /\ ShellIdle /\ ChannelsIdle /\ InputIdle /\ AttacherIdle /\ ShellRunIdle
NextVt ==
    \/ VtWriteAny /\ UNCHANGED exceptVt
    \/ DebounceFire /\ UNCHANGED exceptVt
    \/ IntervalFire /\ UNCHANGED exceptVt
    \/ VtFlush /\ UNCHANGED exceptVt
    \/ FlushResolve /\ UNCHANGED exceptVt
    \/ VtDispose /\ UNCHANGED exceptVt
    \/ EmuProcess /\ UNCHANGED exceptVt
    \/ CaptureResume /\ UNCHANGED exceptVt
    \/ CaptureThrow /\ UNCHANGED exceptVt
SpecVt == InitVt /\ [][NextVt]_vars

InitComposite == CompositeInit /\ CodecIdle /\ DumpIdle /\ VtIdle /\ GatewayIdle /\ ScrollbackIdle /\ SchedulerIdle /\ ShellIdle /\ ChannelsIdle /\ InputIdle /\ AttacherIdle /\ ShellRunIdle
NextComposite ==
    \/ Process /\ UNCHANGED exceptComposite
SpecComposite == InitComposite /\ [][NextComposite]_vars

InitGateway == GatewayInit /\ CompositeIdle /\ CodecIdle /\ DumpIdle /\ VtIdle /\ ScrollbackIdle /\ SchedulerIdle /\ ShellIdle /\ ChannelsIdle /\ InputIdle /\ AttacherIdle /\ ShellRunIdle
NextGateway ==
    \/ Update /\ UNCHANGED exceptGateway
    \/ ReplaceScenes /\ UNCHANGED exceptGateway
    \/ RcBegin /\ UNCHANGED exceptGateway
    \/ RcStopped /\ UNCHANGED exceptGateway
    \/ RcStartOk /\ UNCHANGED exceptGateway
    \/ RcStartFail /\ UNCHANGED exceptGateway
    \/ RcRolledBack /\ UNCHANGED exceptGateway
SpecGateway == InitGateway /\ [][NextGateway]_vars

InitScrollback ==
    /\ ScrollbackInit
    /\ CodecIdle /\ DumpIdle /\ VtIdle /\ CompositeIdle /\ GatewayIdle /\ SchedulerIdle
    /\ ShellIdle
    /\ ChannelsIdle
    /\ InputIdle
    /\ AttacherIdle
    /\ ShellRunIdle
NextScrollback ==
    \/ EmuWriteLine /\ UNCHANGED exceptScrollback
    \/ EnterAlternate /\ UNCHANGED exceptScrollback
    \/ ExitAlternate /\ UNCHANGED exceptScrollback
    \/ Resize /\ UNCHANGED exceptScrollback
    \/ EmulatorTakeSnapshot /\ UNCHANGED exceptScrollback
SpecScrollback == InitScrollback /\ [][NextScrollback]_vars

InitVtOffsets ==
    /\ ScrollbackInit
    /\ CodecIdle /\ DumpIdle /\ VtIdle /\ CompositeIdle /\ GatewayIdle /\ SchedulerIdle
    /\ ShellIdle
    /\ ChannelsIdle
    /\ InputIdle
    /\ AttacherIdle
    /\ ShellRunIdle
NextVtOffsets ==
    \/ TermWrite /\ UNCHANGED exceptScrollback
    \/ TermResize /\ UNCHANGED exceptScrollback
    \/ Capture /\ UNCHANGED exceptScrollback
    \/ TakeSnapshot /\ UNCHANGED exceptScrollback
SpecVtOffsets == InitVtOffsets /\ [][NextVtOffsets]_vars

InitScheduler ==
    /\ SchedulerInit
    /\ CodecIdle /\ DumpIdle /\ VtIdle /\ CompositeIdle /\ GatewayIdle /\ ScrollbackIdle
    /\ ShellIdle
    /\ ChannelsIdle
    /\ InputIdle
    /\ AttacherIdle
    /\ ShellRunIdle
NextScheduler ==
    \/ SchedAdvance /\ UNCHANGED exceptScheduler
    \/ SchedNotify /\ UNCHANGED exceptScheduler
    \/ SchedDebounceFire /\ UNCHANGED exceptScheduler
    \/ SchedIntervalFire /\ UNCHANGED exceptScheduler
    \/ SchedFlush /\ UNCHANGED exceptScheduler
    \/ SchedDispose /\ UNCHANGED exceptScheduler
SpecScheduler == InitScheduler /\ [][NextScheduler]_vars

InitShell ==
    /\ ShellInit
    /\ CodecIdle /\ DumpIdle /\ VtIdle /\ CompositeIdle /\ GatewayIdle /\ ScrollbackIdle
    /\ SchedulerIdle
    /\ ChannelsIdle
    /\ InputIdle
    /\ AttacherIdle
    /\ ShellRunIdle
NextShell ==
    \/ ShellDetect /\ UNCHANGED exceptShell
    \/ ShellContinue /\ UNCHANGED exceptShell
SpecShell == InitShell /\ [][NextShell]_vars

InitShellRun ==
    /\ ShellInit /\ ShellRunIdle
    /\ CodecIdle /\ DumpIdle /\ VtIdle /\ CompositeIdle /\ GatewayIdle /\ ScrollbackIdle
    /\ SchedulerIdle /\ ChannelsIdle /\ InputIdle /\ AttacherIdle
NextShellRun ==
    \/ RunDetect /\ UNCHANGED exceptShellRun
    \/ RunContinue /\ UNCHANGED exceptShellRun
SpecShellRun == InitShellRun /\ [][NextShellRun]_vars

InitChannels ==
    /\ ChannelsInit
    /\ CodecIdle /\ DumpIdle /\ VtIdle /\ CompositeIdle /\ GatewayIdle /\ ScrollbackIdle
    /\ SchedulerIdle /\ ShellIdle
    /\ InputIdle
    /\ AttacherIdle
    /\ ShellRunIdle
NextChannels ==
    \/ DumpStart /\ UNCHANGED exceptChannels
    \/ DumpStop /\ UNCHANGED exceptChannels
    \/ DumpReceive /\ UNCHANGED exceptChannels
    \/ WebStart /\ UNCHANGED exceptChannels
    \/ WebStop /\ UNCHANGED exceptChannels
    \/ WebClientOpen /\ UNCHANGED exceptChannels
    \/ WebClientClose /\ UNCHANGED exceptChannels
    \/ WebReceive /\ UNCHANGED exceptChannels
SpecChannels == InitChannels /\ [][NextChannels]_vars

InitInput ==
    /\ InputInit
    /\ CodecIdle /\ DumpIdle /\ VtIdle /\ CompositeIdle /\ GatewayIdle /\ ScrollbackIdle
    /\ SchedulerIdle /\ ShellIdle /\ ChannelsIdle
    /\ AttacherIdle
    /\ ShellRunIdle
NextInput ==
    \/ InputParse /\ UNCHANGED exceptInput
    \/ InputSend /\ UNCHANGED exceptInput
SpecInput == InitInput /\ [][NextInput]_vars

\* Two callers of replaceChannels()
InitCalls ==
    /\ CallsInit(FALSE)
    /\ CodecIdle /\ DumpIdle /\ VtIdle /\ CompositeIdle /\ GatewayIdle /\ ScrollbackIdle
    /\ SchedulerIdle /\ ShellIdle /\ ChannelsIdle /\ InputIdle
    /\ ShellRunIdle
NextCalls ==
    \/ \E call \in CallIds : CcCall(call) /\ UNCHANGED exceptAttacher
    \/ \E call \in CallIds : CcStopped(call) /\ UNCHANGED exceptAttacher
    \/ \E call \in CallIds : CcStartOk(call) /\ UNCHANGED exceptAttacher
    \/ \E call \in CallIds : CcStartFail(call) /\ UNCHANGED exceptAttacher
    \/ \E call \in CallIds : CcRolledBack(call) /\ UNCHANGED exceptAttacher
SpecCalls == InitCalls /\ [][NextCalls]_vars

\* The Attacher as the caller
InitAttacher ==
    /\ CallsInit(TRUE)
    /\ CodecIdle /\ DumpIdle /\ VtIdle /\ CompositeIdle /\ GatewayIdle /\ ScrollbackIdle
    /\ SchedulerIdle /\ ShellIdle /\ ChannelsIdle /\ InputIdle
    /\ ShellRunIdle
NextAttacher ==
    \/ AtStart /\ UNCHANGED exceptAttacher
    \/ AtFileChanged /\ UNCHANGED exceptAttacher
    \/ AtLoadFails /\ UNCHANGED exceptAttacher
    \/ AtReplaceChannels /\ UNCHANGED exceptAttacher
    \/ AtKeepChannels /\ UNCHANGED exceptAttacher
    \/ AtChannelsReplaced /\ UNCHANGED exceptAttacher
    \/ AtChannelsFailed /\ UNCHANGED exceptAttacher
    \/ AtStop /\ UNCHANGED exceptAttacher
    \/ AtStopped /\ UNCHANGED exceptAttacher
    \/ \E call \in CallIds : CcStopped(call) /\ UNCHANGED exceptAttacher
    \/ \E call \in CallIds : CcStartOk(call) /\ UNCHANGED exceptAttacher
    \/ \E call \in CallIds : CcStartFail(call) /\ UNCHANGED exceptAttacher
    \/ \E call \in CallIds : CcRolledBack(call) /\ UNCHANGED exceptAttacher
SpecAttacher == InitAttacher /\ [][NextAttacher]_vars

\* The scheduling the runtime guarantees while the terminal lives: a timer
\* that stays set fires (the interval timer is never reset by notify), xterm
\* drains its write buffer, and a resolved promise's continuation runs.
VtFairness ==
    /\ WF_vars(IntervalFire /\ UNCHANGED exceptVt)
    /\ WF_vars(~emuDisposed /\ EmuProcess /\ UNCHANGED exceptVt)
    /\ WF_vars(CaptureResume /\ UNCHANGED exceptVt)
    /\ WF_vars(FlushResolve /\ UNCHANGED exceptVt)
SpecVtLive == InitVt /\ [][NextVt]_vars /\ VtFairness

----------------------------------------------------------------------------
(* Writer-reader fidelity *)

\* C2: for any sequence of snapshots written through DumpWriter, whatever mix
\* of keyframes and deltas the policy chose, reader.snapshots() yields a
\* sequence of the same length whose i-th snapshot is the i-th snapshot
\* written, field by field.
C2_WriterReaderFidelity ==
    rOut # <<>> =>
        /\ Len(rOut[1]) = Len(written)
        /\ \A k \in 1..Len(written) :
              /\ rOut[1][k].lines = written[k].lines
              /\ rOut[1][k].cursor = written[k].cursor
              /\ rOut[1][k].cols = written[k].cols
              /\ rOut[1][k].rows = written[k].rows
              /\ rOut[1][k].alternate = written[k].alternate
              /\ rOut[1][k].linesOffset = written[k].linesOffset
              /\ rOut[1][k].timestamp = written[k].timestamp

\* A dump read back that holds a keyframe of a snapshot whose linesOffset is
\* null, then a delta on that base, then a keyframe that the size policy alone
\* forced (the gap is short and the diff exists).
C2_Witness ==
    /\ rOut # <<>>
    /\ Len(written) = 3
    /\ written[1].linesOffset = <<>>
    /\ rIndex[1][2].type = "delta"
    /\ rIndex[1][3].type = "keyframe"
    /\ written[3].timestamp - written[1].timestamp < wIntervalMs
    /\ computeSnapshotDiff(written[2], written[3]) # <<>>

----------------------------------------------------------------------------
(* The capture loop *)

RunningCaptures == {id \in CapIds : capPc[id] # "none"}

\* C3: at any moment at most one runCapture coroutine is executing, for every
\* interleaving of writes, timer firings, flush() calls and the capture's own
\* suspension.
C3_OneCapture == Cardinality(RunningCaptures) <= 1

\* A capture is suspended in emulator.flush() while two more firings (a timer
\* and a flush() call among them) have arrived.
C3_Witness ==
    /\ runningCapture # <<>>
    /\ firesInFlight >= 2
    /\ Cardinality(RunningCaptures) = 1

\* C4: while the terminal is not disposed, every write is eventually followed
\* by a capture whose snapshot is taken after the emulator processed that
\* write's bytes, also when the write arrives during a capture in flight.
C4_WriteCaptured ==
    \A n \in 1..MaxVtWrites : (nWrites >= n) ~> (capSeq >= n \/ vtDisposed)

\* The last write of a burst arrived while a capture was in flight and a later
\* capture has taken a snapshot that includes it.
C4_Witness ==
    /\ lastWriteInFlight
    /\ nWrites >= 2
    /\ capSeq = nWrites
    /\ ~vtDisposed

\* C5: the firings that occur during a capture in flight, however many, lead
\* to exactly one more capture when it completes, and none when there were
\* none: the completing step begins one capture that has consumed them all.
C5_CollapsedFires ==
    [][\A id \in CapIds :
          (capPc[id] = "resolved" /\ capPc'[id] # "resolved") =>
              IF firesInFlight >= 1
              THEN /\ nCaptures' = nCaptures + 1
                   /\ capPc'[id] = "awaiting"
                   /\ firesInFlight' = 0
                   /\ ~captureNeeded'
              ELSE /\ nCaptures' = nCaptures
                   /\ capPc'[id] = "none"
                   /\ runningCapture' = <<>>]_vars

\* Three firings, two of them during the first capture, and the second
\* capture is the only further one.
C5_Witness ==
    /\ nFires = 3
    /\ nCaptures = 2
    /\ firesInFlight = 0
    /\ runningCapture # <<>>

\* C6: after dispose() the change callback is never invoked again, not even
\* by a capture that was in flight when dispose() was called.
C6_NoCallbackAfterDispose ==
    \A k \in 1..Len(changes) : ~changes[k].disposed

\* C7: the callback is invoked only for a snapshot that differs from the
\* previously emitted one in a field other than timestamp, so no two
\* consecutively emitted snapshots are equal but for their timestamps.
C7_NoDuplicateEmission ==
    \A k \in 2..Len(changes) :
        /\ WithoutTimestamp(changes[k].snapshot) # WithoutTimestamp(changes[k - 1].snapshot)
        /\ changes[k].previous # <<>>
        /\ WithoutTimestamp(changes[k].previous[1])
             = WithoutTimestamp(changes[k - 1].snapshot)

\* Two emissions with a suppressed capture between them: the second one's
\* `previous` is a later capture than the first emission.
C7_Witness ==
    /\ Len(changes) >= 2
    /\ changes[2].previous[1].timestamp # changes[1].snapshot.timestamp

----------------------------------------------------------------------------
(* Continuation and preemption in the composite scene *)

\* The scenes the last process() asked to detect, in the order asked.
DetectCalled == [k \in 1..(Len(cCalls) - 1) |-> cCalls[k + 1].scene]

\* The calls after the first are detect calls on pairwise different scenes in
\* ascending priority order.
AscendingDetects ==
    /\ \A k \in 2..Len(cCalls) : cCalls[k].op = "detect"
    /\ \A j, k \in 1..Len(DetectCalled) :
          j < k => /\ DetectCalled[j] # DetectCalled[k]
                   /\ cPriority[DetectCalled[j]] <= cPriority[DetectCalled[k]]

\* Among `candidates`, the scan stopped at the first scene that detects: that
\* scene is asked last, every scene asked before it answered null, and no
\* candidate of strictly lower priority was left out.
FirstMatchWins(candidates) ==
    LET n == Len(DetectCalled)
        w == DetectCalled[n]
    IN  /\ n >= 1
        /\ cDet[w] # <<>>
        /\ \A k \in 1..(n - 1) : cDet[DetectCalled[k]] = <<>>
        /\ \A s \in candidates :
              cPriority[s] < cPriority[w] => \E k \in 1..(n - 1) : DetectCalled[k] = s
        /\ activeScene = <<w>>
        /\ cResult = <<[events |-> cDet[w][1], firm |-> TRUE]>>

TentativeContinue == cPrevActive # <<>> /\ cCont # <<>> /\ ~cCont[1].firm
FirmContinue == cPrevActive # <<>> /\ cCont # <<>> /\ cCont[1].firm
FailedContinue == cPrevActive # <<>> /\ cCont = <<>>

\* C8: when the active scene's continue is tentative, detect is called on the
\* other scenes in ascending priority order and never on the active scene; the
\* first one that answers non-null becomes active and process returns its
\* events with firm = true (and when none does, every other scene was asked
\* and the tentative result is returned).
C8_TentativePreemption ==
    TentativeContinue =>
        LET others == SceneIds \ {cPrevActive[1]} IN
        /\ cCalls[1] = Call("continue", cPrevActive[1])
        /\ AscendingDetects
        /\ \A k \in 1..Len(DetectCalled) : DetectCalled[k] \in others
        /\ IF \E s \in others : cDet[s] # <<>>
           THEN FirstMatchWins(others)
           ELSE /\ {DetectCalled[k] : k \in 1..Len(DetectCalled)} = others
                /\ activeScene = cPrevActive
                /\ cResult = cCont

\* A tentative continuation preempted by a scene of higher priority number,
\* the scan having passed over the active scene, which would itself detect.
C8_Witness ==
    /\ TentativeContinue
    /\ activeScene # cPrevActive
    /\ cPriority[activeScene[1]] > cPriority[cPrevActive[1]]
    /\ cDet[cPrevActive[1]] # <<>>
    /\ Len(cCalls) >= 3

\* C9: when the active scene's continue is firm, process returns that result
\* unchanged, calls no scene's detect, and keeps the active scene, even when a
\* scene of lower priority number would detect the snapshot.
C9_FirmContinuation ==
    FirmContinue =>
        /\ cResult = cCont
        /\ cCalls = <<Call("continue", cPrevActive[1])>>
        /\ activeScene = cPrevActive

\* A firm continuation while a scene of lower priority number would detect.
C9_Witness ==
    /\ FirmContinue
    /\ \E s \in SceneIds :
          cPriority[s] < cPriority[cPrevActive[1]] /\ cDet[s] # <<>>

\* C10: when the active scene's continue returns null, the same process call
\* runs detect over all scenes in ascending priority order; the first match
\* becomes active and is returned with firm = true, and with no match the
\* result is {events: [], firm: false} and no scene is active.
C10_FailedContinuation ==
    FailedContinue =>
        /\ cCalls[1] = Call("continue", cPrevActive[1])
        /\ AscendingDetects
        /\ IF \E s \in SceneIds : cDet[s] # <<>>
           THEN FirstMatchWins(SceneIds)
           ELSE /\ {DetectCalled[k] : k \in 1..Len(DetectCalled)} = SceneIds
                /\ activeScene = <<>>
                /\ cResult = <<[events |-> <<>>, firm |-> FALSE]>>

\* The active scene gave up and no scene, itself included, detects.
C10_Witness ==
    /\ FailedContinue
    /\ \A s \in SceneIds : cDet[s] = <<>>
    /\ Len(cCalls) = MaxScenes + 1
    /\ activeScene = <<>>

----------------------------------------------------------------------------
(* Scrollback offsets *)

\* C15: for consecutive snapshots the virtual terminal hands to onChange, the
\* later linesOffset is null or not below the earlier one; it goes down only
\* across a snapshot handed on with a null linesOffset.
C15_EmittedOffsetsMonotonic ==
    Len(emittedOffsets) = 2 =>
        \/ emittedOffsets[2] = <<>>
        \/ emittedOffsets[1] = <<>>
        \/ emittedOffsets[2][1] >= emittedOffsets[1][1]

\* C37: a direct takeSnapshot() call is read-only for what is handed on
\* afterwards: the snapshot the next capture would take has the same
\* linesOffset (a pending null included) and the same lines after the call
\* as before it.
C37_TakeSnapshotReadOnly ==
    [][TakeSnapshot =>
          /\ trackedSnapshot.snapshot.linesOffset' = trackedSnapshot.snapshot.linesOffset
          /\ trackedSnapshot.snapshot.lines' = trackedSnapshot.snapshot.lines]_vars

\* C16: for two consecutive normal-screen snapshots with non-null
\* linesOffset, the difference of the two offsets is the number of lines
\* trimmed from the scrollback between them, however many scrollback lines
\* the earlier snapshot had.
C16_OffsetDifferenceIsTrimmed ==
    /\ Len(normalShots) = 2
    /\ normalShots[1].linesOffset # <<>>
    /\ normalShots[2].linesOffset # <<>>
    => normalShots[2].linesOffset[1] - normalShots[1].linesOffset[1]
         = normalShots[2].trimmed - normalShots[1].trimmed

C18_ExactlyFirstIsNullAfterResize ==
    sinceResize # <<>> =>
        /\ Len(sinceResize[1]) >= 1 => sinceResize[1][1].linesOffset = <<>>
        /\ Len(sinceResize[1]) >= 2 => sinceResize[1][2].linesOffset # <<>>

----------------------------------------------------------------------------
(* Flush latency *)

\* C20: while notify() calls keep arriving at gaps shorter than the debounce
\* delay, the interval timer stays due max_interval_ms after the first
\* notify() of the cycle, so the cycle is never older than that and every
\* onFlush() call comes at most max_interval_ms after the cycle's first
\* notify().
C20_FlushWithinMaxInterval ==
    /\ fsCycleStart # <<>> =>
          /\ fsIntervalDue = <<fsCycleStart[1] + DEFAULT_MAX_INTERVAL_MS>>
          /\ fsNow - fsCycleStart[1] <= DEFAULT_MAX_INTERVAL_MS
    /\ fsLastFire # <<>> => fsLastFire[1].latency <= DEFAULT_MAX_INTERVAL_MS

\* notify() calls less than the debounce delay apart kept the debounce timer
\* from firing, and the interval timer fired max_interval_ms after the first.
C20_Witness ==
    /\ fsLastFire # <<>>
    /\ fsLastFire[1].cause = "interval"
    /\ fsLastFire[1].latency = DEFAULT_MAX_INTERVAL_MS
    /\ fsLastFire[1].notifies >= 4

----------------------------------------------------------------------------
(* One flush per cycle *)

\* A cycle is open from the first notify() after a flush until onFlush() is
\* called.
CycleOpen == fsCycleStart # <<>>

\* C21: each cycle calls onFlush() exactly once. While a cycle is open,
\* onFlush() has not been called for it; the step that closes it (the debounce
\* timer, the interval timer or flush()) calls onFlush() once and leaves no
\* timer behind, so the other timer never fires; while no cycle is open no
\* timer is set and onFlush() is not called; and the notify() that opens the
\* next cycle sets both timers anew, measured from that notify().
C21_OneFlushPerCycle ==
    /\ [](/\ fsCycleFires <= 1
          /\ CycleOpen => fsCycleFires = 0
          /\ ~CycleOpen => fsDebounceDue = <<>> /\ fsIntervalDue = <<>>)
    /\ [][/\ CycleOpen /\ ~CycleOpen' /\ ~fsDisposed' =>
                /\ fsCycleFires' = 1
                /\ fsDebounceDue' = <<>> /\ fsIntervalDue' = <<>>
          /\ ~CycleOpen => fsCycleFires' <= fsCycleFires
          /\ ~CycleOpen /\ CycleOpen' =>
                /\ fsDebounceDue' = <<fsNow + DEFAULT_DEBOUNCE_MS>>
                /\ fsIntervalDue' = <<fsNow + DEFAULT_MAX_INTERVAL_MS>>
                /\ fsCycleFires' = 0]_vars

\* The debounce timer closed a cycle while the interval timer was still
\* pending, and a second cycle, opened after the time at which that interval
\* timer was due, is still open: the cancelled timer did not fire.
C21_Witness ==
    /\ fsLastFire # <<>>
    /\ fsLastFire[1].cause = "debounce"
    /\ CycleOpen
    /\ fsCycleStart[1] >= DEFAULT_MAX_INTERVAL_MS
    /\ fsNow > fsCycleStart[1]
    /\ fsCycleFires = 0

----------------------------------------------------------------------------
(* VirtualTerminal.flush() *)

\* C22: when the promise returned by flush() resolves on a terminal that has
\* not been disposed, no capture is running or needed, a capture has taken its
\* snapshot after the emulator processed every write accepted before the
\* flush() call, and that snapshot has been handed to the change callback
\* unless it equals the previously captured one; this holds also when a
\* capture was in flight at the call.
C22_FlushCoversWrites ==
    /\ [](flushPc = "resolved" /\ ~vtDisposed =>
            /\ capSeq >= flushWrites
            /\ flushWrites >= 1 =>
                  /\ changes # <<>>
                  /\ snapshotsEqual(changes[Len(changes)].snapshot, previousSnapshot[1]))
    /\ [][flushPc = "awaiting" /\ flushPc' = "resolved" /\ ~vtDisposed =>
              /\ runningCapture = <<>>
              /\ ~captureNeeded
              /\ capSeq >= flushWrites]_vars

\* A flush() call made while a capture was in flight, after a write that had
\* arrived during that capture, has resolved: the second capture took the
\* write in and its snapshot was emitted.
C22_Witness ==
    /\ flushPc = "resolved"
    /\ flushInFlight
    /\ lastWriteInFlight
    /\ flushWrites = nWrites
    /\ flushWrites >= 2
    /\ capSeq = flushWrites
    /\ Len(changes) >= 2
    /\ changes[Len(changes)].snapshot = previousSnapshot[1]
    /\ ~vtDisposed

----------------------------------------------------------------------------
(* VirtualTerminal.lastSnapshot *)

\* C23: lastSnapshot is always the snapshot most recently handed to the change
\* callback, timestamp included, and undefined before the first emission; a
\* capture suppressed as a duplicate leaves it unchanged.
C23_LastSnapshotIsLastEmitted ==
    previousSnapshot =
        IF changes = <<>> THEN <<>> ELSE <<changes[Len(changes)].snapshot>>

----------------------------------------------------------------------------
(* The keyframe policy, read off the file *)

\* The frame of the k-th snapshot written; the header is the file's first frame.
SnapFrame(k) == file.frames[k + 1]

\* The last snapshot before the k-th that was written as a keyframe.
LastKeyframeBefore(k) ==
    CHOOSE j \in 1..(k - 1) :
        /\ SnapFrame(j).tag = KEYFRAME
        /\ \A i \in (j + 1)..(k - 1) : SnapFrame(i).tag # KEYFRAME

\* The bytes of the frames of snapshots j + 1 .. k - 1.
RECURSIVE BytesBetween(_, _)
BytesBetween(j, k) ==
    IF j + 1 >= k THEN 0 ELSE FrameBytes(SnapFrame(j + 1)) + BytesBetween(j + 1, k)

\* One of the four reasons for a keyframe applies to the k-th snapshot.
KeyframeDue(k) ==
    \/ k = 1
    \/ LET j == LastKeyframeBefore(k)
       IN  \/ written[k].timestamp - written[j].timestamp >= wIntervalMs
           \/ BytesBetween(j, k) > wSizeRatio * FrameBytes(SnapFrame(j))
           \/ computeSnapshotDiff(written[k - 1], written[k]) = <<>>

\* C24: the k-th snapshot is written as a keyframe (its fields but timestamp)
\* iff it is the first, or its timestamp is at least keyframe_interval_ms after
\* the last keyframe's, or the bytes of the delta frames since the last
\* keyframe exceed keyframe_size_ratio times that keyframe's frame bytes, or
\* computeSnapshotDiff against the snapshot written before it is null;
\* otherwise it is written as that diff.
C24_KeyframePolicy ==
    /\ Len(file.frames) = Len(written) + 1
    /\ \A k \in 1..Len(written) :
          /\ SnapFrame(k).timestamp = written[k].timestamp
          /\ IF KeyframeDue(k)
             THEN /\ SnapFrame(k).tag = KEYFRAME
                  /\ SnapFrame(k).payload = WithoutTimestamp(written[k])
             ELSE /\ SnapFrame(k).tag = DELTA
                  /\ <<SnapFrame(k).payload>> = computeSnapshotDiff(written[k - 1], written[k])

\* Three snapshots a short time apart: a keyframe, a delta, and a keyframe
\* written only because the diff is null.
C24_Witness ==
    /\ Len(written) = 3
    /\ SnapFrame(2).tag = DELTA
    /\ SnapFrame(3).tag = KEYFRAME
    /\ written[3].timestamp - written[1].timestamp < wIntervalMs
    /\ BytesBetween(1, 3) <= wSizeRatio * FrameBytes(SnapFrame(1))
    /\ computeSnapshotDiff(written[2], written[3]) = <<>>

----------------------------------------------------------------------------
(* Reading dumps *)

\* The last query was `op`, on a dump whose frames DumpWriter wrote.
Asked(op) == rdQuery # <<>> /\ rdQuery[1].op = op /\ rdForeign = <<>>

\* The dump holds a frame of `kind` that DumpWriter did not write.
Holds(kind) == rdForeign # <<>> /\ rdForeign[1].kind = kind

\* C25: a dump whose first frame after the header is a delta, before any
\* keyframe, is rejected: once open() has returned a reader, snapshots() and
\* snapshotNearestTo() throw instead of returning a result.
C25_LeadingDeltaRejected ==
    Holds("delta") /\ rdQuery # <<>> => rdQuery[1].out.threw

\* C26: a frame of unknown type between valid frames is skipped: the reader
\* opens, its index holds every snapshot frame of the file, those after the
\* unknown frame too, and snapshots() yields one snapshot for each.
C26_UnknownFrameSkipped ==
    Holds("unknown") /\ rIndex # <<>> =>
        /\ Len(rIndex[1]) = Len(written)
        /\ rdQuery # <<>> /\ rdQuery[1].op = "snapshots" /\ rdQuery[1].arg = <<>> =>
              /\ ~rdQuery[1].out.threw
              /\ Len(rdQuery[1].out.value) = Len(written)

\* The positions of the snapshots written at or before time t.
AtOrBefore(t) == {k \in DOMAIN written : written[k].timestamp <= t}

\* C27: in a dump written from snapshots with non-decreasing timestamps,
\* snapshotNearestTo(t) returns the snapshot written last among those with
\* timestamp <= t, rebuilt equal to what was written, and null iff no
\* snapshot has a timestamp <= t.
C27_NearestIsGreatestAtOrBefore ==
    Asked("snapshotNearestTo") =>
        LET t == rdQuery[1].arg[1]
            out == rdQuery[1].out
        IN  /\ ~out.threw
            /\ out.value = <<>> <=> AtOrBefore(t) = {}
            /\ AtOrBefore(t) # {} =>
                  out.value = <<written[CHOOSE k \in AtOrBefore(t) :
                                            \A j \in AtOrBefore(t) : j <= k]>>

\* The time asked for lies between the second and the third snapshot, and
\* the second, written as a delta, is returned.
C27_Witness ==
    /\ Asked("snapshotNearestTo")
    /\ Len(written) = 3
    /\ SnapFrame(2).tag = DELTA
    /\ rdQuery[1].arg[1] > written[2].timestamp
    /\ rdQuery[1].arg[1] < written[3].timestamp
    /\ rdQuery[1].out.value = <<written[2]>>

\* The positions of the snapshots written at or after time t.
AtOrAfter(t) == {k \in DOMAIN written : written[k].timestamp >= t}

\* C28: snapshots(from) yields exactly the entries with timestamp >= from, in
\* file order, each equal to what snapshots() without argument yields at the
\* same index, also when the first of them is a delta whose keyframe lies
\* before `from`.
C28_SnapshotsFromIsSuffix ==
    Asked("snapshots") /\ rdQuery[1].arg # <<>> =>
        LET from == rdQuery[1].arg[1]
            out == rdQuery[1].out
            all == snapshots(file, rIndex[1], <<>>).value
            n == Cardinality(AtOrAfter(from))
        IN  /\ ~out.threw
            /\ Len(all) = Len(written)
            /\ \A k \in AtOrAfter(from) : k > Len(all) - n
            /\ out.value = SubSeq(all, Len(all) - n + 1, Len(all))

\* snapshots(from) began at the second snapshot, a delta on a keyframe written
\* before `from`, and yielded the second and the third as written.
C28_Witness ==
    /\ Asked("snapshots")
    /\ Len(written) = 3
    /\ rdQuery[1].arg = <<written[2].timestamp>>
    /\ written[1].timestamp < written[2].timestamp
    /\ SnapFrame(2).tag = DELTA
    /\ rdQuery[1].out.value = <<written[2], written[3]>>

----------------------------------------------------------------------------
(* Claims about the shell scene *)

\* The last call was continue() on a snapshot the scene could follow from
\* `type` state: main screen, offset known, tracked positions still covered.
Followed(type) ==
    /\ shCall # <<>>
    /\ shCall[1].op = "continue"
    /\ shCall[1].before # <<>>
    /\ shCall[1].before[1].type = type
    /\ ~shCall[1].snapshot.alternate
    /\ shCall[1].snapshot.linesOffset # <<>>
    /\ LET snapshot == shCall[1].snapshot
           before == shCall[1].before[1]
       IN  snapshot.linesOffset[1] + Len(snapshot.lines) >=
               (IF type = "idle" THEN before.promptEnd + 1 ELSE before.emittedUpTo)

\* The prompt matched on the snapshot of the last call, <<>> if none
Matched == match(shCall[1].snapshot, shPrefix)

\* The last call found the scene idle and the prompt no longer at promptEnd
IdleLeft ==
    /\ Followed("idle")
    /\ Matched = <<>> \/ Matched[1].promptEnd # shCall[1].before[1].promptEnd

\* The lines of the snapshot at the absolute positions from..to-1
RangeLines(snapshot, from, to) ==
    [i \in 1..Max(to - from, 0) |-> snapshot.lines[from - snapshot.linesOffset[1] + i]]

\* The same without the blank lines it begins and ends with
NonBlank(lines) == {i \in DOMAIN lines : lines[i].text # ""}
Trimmed(lines) ==
    IF NonBlank(lines) = {} THEN <<>>
    ELSE LET first == CHOOSE i \in NonBlank(lines) : \A j \in NonBlank(lines) : i <= j
             last == CHOOSE i \in NonBlank(lines) : \A j \in NonBlank(lines) : i >= j
         IN  [i \in 1..(last - first + 1) |-> lines[first + i - 1]]

\* The events of the last call that are messages of `style`
MessagesOf(style) ==
    {i \in DOMAIN shCall[1].result[1].events :
        /\ shCall[1].result[1].events[i].type = "message_created"
        /\ shCall[1].result[1].events[i].style = style}

\* C29 as stated: leaving idle, the scene emits input_changed{active: false,
\* text: ""} first, then a block message with echo holding the lines
\* promptStart..promptEnd of the snapshot iff promptStart >= linesOffset, and
\* enters running with emittedUpTo = promptEnd + 1.
C29_BlockHoldsPromptLines ==
    IdleLeft =>
        LET snapshot == shCall[1].snapshot
            before == shCall[1].before[1]
            events == shCall[1].result[1].events
        IN  /\ events[1] = InputChanged(FALSE, "")
            /\ IF before.promptStart >= snapshot.linesOffset[1]
               THEN /\ MessagesOf("block") = {2}
                    /\ events[2] = BlockMessage(RangeLines(snapshot, before.promptStart,
                                                           before.promptEnd + 1))
               ELSE MessagesOf("block") = {}
            /\ shCall[1].entered = <<RunningState(before.promptEnd + 1)>>

\* C29, amended: the same, the block message holding the lines
\* promptStart..promptEnd of the snapshot without the blank lines that range
\* begins and ends with.
C29_BlockHoldsTrimmedPromptLines ==
    IdleLeft =>
        LET snapshot == shCall[1].snapshot
            before == shCall[1].before[1]
            events == shCall[1].result[1].events
        IN  /\ shCall[1].result # <<>>
            /\ events[1] = InputChanged(FALSE, "")
            /\ IF before.promptStart >= snapshot.linesOffset[1]
               THEN /\ MessagesOf("block") = {2}
                    /\ events[2] = BlockMessage(Trimmed(RangeLines(snapshot,
                                         before.promptStart, before.promptEnd + 1)))
               ELSE MessagesOf("block") = {}
            /\ shCall[1].entered = <<RunningState(before.promptEnd + 1)>>

\* A two-line prompt ("~" above "$ ls") was left with both lines still in
\* the snapshot, and the block message held the two of them.
C29_Witness ==
    /\ IdleLeft
    /\ shPrefix
    /\ shCall[1].before[1].promptStart >= shCall[1].snapshot.linesOffset[1]
    /\ shCall[1].result[1].events[2] = BlockMessage(<<Plain("~"), Plain("$ ls")>>)
    /\ shCall[1].entered = <<RunningState(shCall[1].before[1].promptEnd + 1)>>

\* The last call went through the running handling: emittedUpTo as it was
\* when that began, <<>> if it did not
RunningFrom ==
    IF Followed("running") THEN <<shCall[1].before[1].emittedUpTo>>
    ELSE IF IdleLeft THEN <<shCall[1].before[1].promptEnd + 1>>
    ELSE <<>>

\* The boundary of the last call, and where its text range begins
BoundaryOf ==
    IF Matched # <<>> THEN Matched[1].promptStart
    ELSE shCall[1].snapshot.linesOffset[1] + Len(shCall[1].snapshot.lines)
TextFrom == Max(RunningFrom[1], shCall[1].snapshot.linesOffset[1])

\* The text message of a call in state running, its content being `content`
TextEmitted(content) ==
    LET events == shCall[1].result[1].events
    IN  /\ shCall[1].result # <<>>
        /\ IF TextFrom < BoundaryOf
           THEN /\ Cardinality(MessagesOf("text")) = 1
                /\ \A i \in MessagesOf("text") : events[i] = TextMessage(content)
           ELSE MessagesOf("text") = {}
        /\ Matched = <<>> => shellState = <<RunningState(BoundaryOf)>>
        /\ Matched # <<>> => shellState # <<>> /\ shellState[1].type = "idle"

\* C30 as stated: in state running a snapshot emits one text message iff the
\* range from max(emittedUpTo, linesOffset) to the boundary is not empty, its
\* content exactly the lines of that range; emittedUpTo is then the boundary.
C30_TextHoldsRangeLines ==
    RunningFrom # <<>> =>
        TextEmitted(RangeLines(shCall[1].snapshot, TextFrom, BoundaryOf))

\* C30, amended: the same, the content being the lines of that range without
\* the blank lines the range begins and ends with.
C30_TextHoldsTrimmedRangeLines ==
    RunningFrom # <<>> =>
        TextEmitted(Trimmed(RangeLines(shCall[1].snapshot, TextFrom, BoundaryOf)))

\* A running scene whose emittedUpTo had scrolled out below linesOffset got
\* a snapshot with output above a new prompt: one text message held the
\* output, not the prompt, and the scene was idle again.
C30_Witness ==
    /\ Followed("running")
    /\ Matched # <<>>
    /\ shCall[1].before[1].emittedUpTo < shCall[1].snapshot.linesOffset[1]
    /\ TextFrom < BoundaryOf
    /\ shCall[1].result[1].events[1] = TextMessage(<<Plain("out")>>)
    /\ shellState[1].type = "idle"

\* The last call was continue() on a scene whose state was not null
Continued ==
    /\ shCall # <<>>
    /\ shCall[1].op = "continue"
    /\ shCall[1].before # <<>>

\* C39: over a run of main-screen snapshots with a known, never decreasing
\* linesOffset in which the scene does not restart, a text message's range
\* begins at or after the end of the text range before it: no absolute line
\* is emitted as output twice.
C39_TextRangesIncrease ==
    Len(emittedRanges) = 2 => emittedRanges[1].to <= emittedRanges[2].from

\* C31: a snapshot of the alternate screen given to a scene whose state is
\* not null leaves that state as it was and yields {events: [], firm: false}.
C31_AlternatePreservesState ==
    Continued /\ shCall[1].snapshot.alternate =>
        /\ shellState = shCall[1].before
        /\ shCall[1].result = <<[events |-> <<>>, firm |-> FALSE]>>

\* A running scene got an alternate-screen snapshot showing a prompt line
\* and stayed running where it was.
C31_Witness ==
    /\ Continued
    /\ shCall[1].snapshot.alternate
    /\ shCall[1].snapshot.lines = <<Plain("$ ls")>>
    /\ shCall[1].before[1].type = "running"
    /\ shellState = shCall[1].before
    /\ shCall[1].result[1].events = <<>>

\* The last call got a main-screen snapshot that lost the offset or ends
\* before the positions the scene tracks
TrackingLost ==
    /\ Continued
    /\ ~shCall[1].snapshot.alternate
    /\ LET snapshot == shCall[1].snapshot
           before == shCall[1].before[1]
       IN  IF snapshot.linesOffset = <<>> THEN TRUE
           ELSE snapshot.linesOffset[1] + Len(snapshot.lines) <
                    (IF before.type = "idle" THEN before.promptEnd + 1
                     ELSE before.emittedUpTo)

\* C32: when tracking is lost the scene forgets its state and detects the
\* prompt anew on the same snapshot: on a match it is idle at that prompt and
\* the only event is input_changed{active: true}; otherwise it returns null
\* and its state is null.
C32_ReDetectOnLostTracking ==
    TrackingLost =>
        IF Matched # <<>>
        THEN /\ shellState = <<IdleState(Matched[1].promptStart, Matched[1].promptEnd)>>
             /\ shCall[1].result # <<>>
             /\ shCall[1].result[1].events = <<InputChanged(TRUE, Matched[1].inputText)>>
        ELSE /\ shellState = <<>>
             /\ shCall[1].result = <<>>

\* A scene idle at a prompt further down got a shorter snapshot with a
\* prompt on it and was idle at the new prompt.
C32_Witness ==
    /\ TrackingLost
    /\ shCall[1].snapshot.linesOffset # <<>>
    /\ shCall[1].before[1].type = "idle"
    /\ Matched # <<>>
    /\ shellState[1].type = "idle"
    /\ shellState[1].promptEnd < shCall[1].before[1].promptEnd

\* The same with no prompt on the snapshot: null, and the state forgotten.
C32_WitnessNull ==
    /\ TrackingLost
    /\ shCall[1].before[1].type = "running"
    /\ Matched = <<>>
    /\ shellState = <<>>

----------------------------------------------------------------------------
(* Claims about the gateway, continued *)

\* A step of replaceScenes(): no update() and no step of replaceChannels()
ReplaceScenesStep == UNCHANGED <<gClock, chStatus, chStopCalls, rcPc, rcOld, rcNew,
                                 rcStarted, rcOutcome>>

\* C33: replaceScenes() broadcasts one frame, the last snapshot with the
\* single event scene_state_changed{state: null}, to every channel iff the
\* scene state before it was not null and an update has occurred; otherwise
\* it broadcasts nothing; afterwards the scene state is null.
C33_ReplaceScenesNotifiesOnce ==
    [][ReplaceScenesStep =>
        /\ sceneState' = <<>>
        /\ IF sceneState # <<>> /\ gClock > 0
           THEN /\ gFrame' = <<[snapshot |-> gLastSnapshot[1],
                                events |-> <<StateChanged(<<>>)>>]>>
                /\ gTargets' = gChannels
                /\ gReceived' = gChannels
                /\ \A c \in Range(gChannels) :
                      chLast'[c] = gLastSnapshot /\ chPrev'[c] = chLast[c]
                /\ \A c \in ChannelIds \ Range(gChannels) :
                      chLast'[c] = chLast[c] /\ chPrev'[c] = chPrev[c]
           ELSE UNCHANGED <<gFrame, gTargets, gReceived, gThrew, gUpdateThrew, chLast,
                            chPrev>>]_vars

\* replaceScenes() ran after an update that left a scene active and had
\* carried scene events: a started channel got the last snapshot again, with
\* scene_state_changed{state: null} alone.
C33_Witness ==
    /\ gOp = "replaceScenes"
    /\ gSceneEvents # <<>>
    /\ sceneState = <<>>
    /\ gFrame = <<[snapshot |-> gLastSnapshot[1], events |-> <<StateChanged(<<>>)>>]>>
    /\ gReceived # <<>>
    /\ \A c \in Range(gReceived) : chLast[c] = gLastSnapshot /\ chPrev[c] = gLastSnapshot

----------------------------------------------------------------------------
(* Claims about the channels *)

\* C34: stop() called again after a completed stop() completes without error
\* and changes nothing, for the dump channel and for the web channel.
C34_StopIdempotent ==
    chnCall # <<>> /\ chnCall[1].op = "stop" /\ chnCall[1].stoppedBefore =>
        /\ ~chnCall[1].threw
        /\ ChannelState(chnCall[1].channel) = chnCall[1].before

\* The same of the web channel alone
C34_WebStopIdempotent ==
    chnCall # <<>> /\ chnCall[1].op = "stop" /\ chnCall[1].stoppedBefore
      /\ chnCall[1].channel = "web" =>
        /\ ~chnCall[1].threw
        /\ ChannelState("web") = chnCall[1].before

----------------------------------------------------------------------------
(* Claims about structured input *)

\* The C0 control codes other than tab and newline, and DEL
ControlCodes == ((0..31) \ {9, 10}) \cup {127}

\* C35: the content of a text input that parseSceneInput accepted holds no
\* C0 control code other than tab and newline and no DEL, so no carriage
\* return; the text written to the PTY for it has one CR, at its end.
C35_NoControlInAcceptedText ==
    /\ siParsed # <<>> /\ siParsed[1].type = "text" =>
          \A i \in DOMAIN siParsed[1].content : siParsed[1].content[i] \notin ControlCodes
    /\ \A w \in DOMAIN siWritten :
          \A i \in DOMAIN siWritten[w] : siWritten[w][i] = CR => i = Len(siWritten[w])

\* The same of every control code but the carriage return
C35_NoControlButCR ==
    siParsed # <<>> /\ siParsed[1].type = "text" =>
        \A i \in DOMAIN siParsed[1].content :
            siParsed[1].content[i] \notin ControlCodes \ {CR}

----------------------------------------------------------------------------
(* Claims about overlapping calls *)

\* C36: once the replaceChannels() calls made have all completed, every
\* channel whose start succeeded is in the gateway's channel set or has been
\* stopped.
C36_NoStartedChannelOutsideSet ==
    (\A call \in CallIds : ~InFlight(call)) =>
        \A c \in ChannelIds : ccStatus[c] = "started" => c \in Range(ccChannels)

\* C40: once stop() has completed, the gateway has no channels and no file
\* is watched, whatever a reload begun before stop() does afterwards.
C40_NothingLeftAfterStop ==
    atStop = "done" => ccChannels = <<>> /\ atWatchers = {}

----------------------------------------------------------------------------
(* Events of a preempted scene *)

\* C38: the events the active scene's continue returned for a snapshot (a
\* scene that moved its emission position returns the message for the lines
\* it passed) are among the events process returns for that snapshot, also
\* when another scene's detect preempts on it.
C38_ActiveEventsDelivered ==
    cCont # <<>> =>
        \A i \in DOMAIN cCont[1].events :
            \E j \in DOMAIN cResult[1].events : cResult[1].events[j] = cCont[1].events[i]

====
